---- MODULE Spec2Model ----
(***************************************************************************)
(* A model of the nexus core: the kernel's plugin lifecycle                *)
(* (packages/nexus-core/src/kernel/index.ts), the dependency container and *)
(* the configuration manager (packages/nexus-core/src/kernel/config.ts).   *)
(*                                                                         *)
(* An async method of the kernel runs synchronously up to its first await; *)
(* the call then stays in flight until the awaited hook settles, and other *)
(* calls may be issued in between.  Every kernel action below is one       *)
(* synchronous segment of a method.  A hook is code of the plugin: it may  *)
(* be absent, complete, or throw/reject, after any delay.  The kernel's    *)
(* events go to an event bus without subscribers (the repository           *)
(* subscribes none), so emit returns normally.                             *)
(*                                                                         *)
(* SpecKernel is the kernel with its container and ConfigManager;          *)
(* SpecContainer is a DIContainer on its own.                              *)
(***************************************************************************)
EXTENDS Integers, Sequences, FiniteSets, TLC

VARIABLES
    plugins,        \* NexusKernel.plugins: the Map, as the sequence of its values in insertion order
    initialized,    \* NexusKernel.initialized
    configManager,  \* NexusKernel.configManager: a reference into heap
    services,       \* DIContainer.services: token -> factory
    instances,      \* DIContainer.instances: token -> instance
    heap,           \* the ConfigManager objects: reference -> ConfigManager.config
    calls,          \* the kernel calls in flight (suspended at an await)
    pending,        \* the hook invocations that have not settled yet
    ncalls,         \* number of kernel calls issued so far
    invoc,          \* the most recently issued kernel call
    last,           \* the most recently settled kernel call
    emitted,        \* every event handed to EventBus.emit, in order
    hooksInvoked,   \* <<plugin, hook>> -> number of invocations so far
    destroyed,      \* history: the last lifecycle method that completed was destroy
    returnedDescs,  \* descriptor ids registered by the onLoad hook of a registerPlugin call that returned
    factoryCalls,   \* token -> number of factory invocations made by resolve(token) so far
    containerOp,    \* the most recent DIContainer operation, with its outcome
    events,         \* EventBus.events: event name -> the Set of its handlers
    stack,          \* the emit calls and handler invocations in progress, outermost first
    busLast,        \* the most recent call of an EventBus method
    busLog,         \* every handler invocation so far, in order
    emitLog,        \* every emit call so far: its arguments, the handlers subscribed at the call, its outcome
    closures,       \* the unsubscribe closures on() has returned, as <<event, handler>>
    initialConfig,  \* the argument the ConfigManager was constructed with
    regLog,         \* every registerDataSource and registerAuthProvider call so far, in order
    dsConnected,    \* BaseDataSource._connected
    dsBulk,         \* BaseDataSource.capabilities.supportsBulkOperations
    dsCall,         \* the BaseDataSource call in flight (suspended at its await of query)
    dsLast,         \* the most recent BaseDataSource call as it settled (none while it is in flight)
    validation,     \* the Query handed to validateQuery, with the error thrown or "ok" once it has run
    dataSources,    \* DataSourceManager.dataSources: the Map, as the sequence of its values in insertion order
    primaryDataSourceId, \* DataSourceManager.primaryDataSourceId
    dsmConnected,   \* the data source objects whose isConnected() returns true
    dsmThrowing,    \* the events of the manager's EventBus that have a subscriber that throws
    dsmCalls,       \* the DataSourceManager calls in flight (suspended at an await)
    dsmCount,       \* number of DataSourceManager calls issued so far
    dsmLast,        \* the DataSourceManager call that settled in the last step, if one did
    qbHeap,         \* the Query objects: reference -> the properties of the object
    qbLast,         \* the most recent QueryBuilder call, with what it returned or threw
    qbReturned      \* the references build() has returned, each with the Query as it was then

\* the variables of the EventBus
busVars == <<events, stack, busLast, busLog, emitLog, closures>>

\* the history of the ConfigManager on its own (its config is heap[configManager])
cfgVars == <<initialConfig, regLog>>

\* the variables of the BaseDataSource
dsVars == <<dsConnected, dsBulk, dsCall, dsLast, validation>>

\* the variables of the DataSourceManager
dsmVars == <<dataSources, primaryDataSourceId, dsmConnected, dsmThrowing, dsmCalls,
             dsmCount, dsmLast>>

\* the variables of the components other than the kernel and its container
\* the variables of the QueryBuilder
qbVars == <<qbHeap, qbLast, qbReturned>>

restVars == <<busVars, cfgVars, dsVars, dsmVars, qbVars>>

vars == <<plugins, initialized, configManager, services, instances, heap, calls,
          pending, ncalls, invoc, last, emitted, hooksInvoked, destroyed,
          returnedDescs, factoryCalls, containerOp, restVars>>

-----------------------------------------------------------------------------
(* Bounds of the model *)

\* number of plugin objects the host may pass to registerPlugin
NPlugins == 3
\* number of kernel calls issued in one behaviour
MaxCalls == 4
\* number of container operations in one behaviour
MaxContainerOps == 4
\* number of EventBus method calls in one behaviour
MaxBusOps == 4
\* number of registerDataSource and registerAuthProvider calls in one behaviour
MaxConfigOps == 3
\* number of DataSourceManager calls issued in one behaviour
MaxManagerOps == 3
\* number of QueryBuilder calls in one behaviour
MaxBuilderOps == 4

-----------------------------------------------------------------------------
(* Maps *)

EmptyMap == [k \in {} |-> k]

MapHas(m, k) == k \in DOMAIN m

MapSet(m, k, v) == [x \in (DOMAIN m) \cup {k} |-> IF x = k THEN v ELSE m[x]]

MapDelete(m, k) == [x \in (DOMAIN m) \ {k} |-> m[x]]

-----------------------------------------------------------------------------
(* EventBus: the handler Sets.  A Set is the list of its entries in         *)
(* insertion order; a deleted entry leaves an empty slot, which is what     *)
(* Set.prototype.forEach steps over, and an entry added during a forEach    *)
(* is appended and visited.  Slots are dropped when no forEach is running.  *)

EventNames == {"e1", "e2"}

Payloads == {"p1", "p2"}

\* the handler functions the host may subscribe
HandlerFns == {"h1", "h2"}

\* a handler function of the host
Plain(h) == [h |-> h, once |-> 0]

\* the closure wrappedHandler that the once call number n made around h
Wrapped(h, n) == [h |-> h, once |-> n]

\* the empty slot of a deleted entry
Empty == [h |-> "none", once |-> 0]

\* the omitted handler argument of off(event)
Undefined == [h |-> "undefined", once |-> 0]

SetHas(S, fn) == \E i \in 1 .. Len(S) : S[i] = fn

SetAdd(S, fn) == IF SetHas(S, fn) THEN S ELSE Append(S, fn)

SetDelete(S, fn) == [i \in 1 .. Len(S) |-> IF S[i] = fn THEN Empty ELSE S[i]]

SetValues(S) == SelectSeq(S, LAMBDA x : x # Empty)

SetSize(S) == Len(SetValues(S))

NoBusCall == [n |-> 0, op |-> "none", event |-> "none", fn |-> Undefined]

\* private events = new Map()
NewEventBus ==
    /\ events = EmptyMap
    /\ stack = <<>>
    /\ busLast = NoBusCall
    /\ busLog = <<>>
    /\ emitLog = <<>>
    /\ closures = {}

-----------------------------------------------------------------------------
(* BaseDataSource: the state of a data source and of a call of one of its   *)
(* methods                                                                  *)

NoDsCall ==
    [op |-> "none", table |-> <<>>, where |-> "undefined", data |-> "undefined",
     items |-> <<>>, idx |-> 0, connected |-> FALSE, queries |-> <<>>, rows |-> 0]

NoDsResult ==
    [op |-> "none", table |-> <<>>, where |-> "undefined", data |-> "undefined",
     items |-> <<>>, idx |-> 0, connected |-> FALSE, queries |-> <<>>, rows |-> 0,
     outcome |-> "none"]

\* validateQuery has not been called
NoValidation ==
    [query |-> [table |-> <<>>, operation |-> "none", where |-> "undefined",
                data |-> "undefined", limit |-> "undefined", fields |-> "undefined"],
     result |-> "none"]

\* no data source has been constructed
NoDataSource ==
    /\ dsConnected = FALSE
    /\ dsBulk = FALSE
    /\ dsCall = NoDsCall
    /\ dsLast = NoDsResult
    /\ validation = NoValidation

-----------------------------------------------------------------------------
(* DataSourceManager: a settled call, and the manager that has not been     *)
(* constructed                                                              *)

NoDsmResult ==
    [n |-> 0, op |-> "none", id |-> "none", obj |-> 0, configs |-> {}, targets |-> <<>>,
     invoked |-> {}, waits |-> {}, failed |-> {}, results |-> EmptyMap, events |-> <<>>,
     outcome |-> "none", error |-> "none"]

NoManager ==
    /\ dataSources = <<>>
    /\ primaryDataSourceId = "undefined"
    /\ dsmConnected = {}
    /\ dsmThrowing = {}
    /\ dsmCalls = {}
    /\ dsmCount = 0
    /\ dsmLast = NoDsmResult

\* no QueryBuilder call
NoBuilderCall ==
    [n |-> 0, op |-> "none", where |-> <<>>, orderBy |-> <<>>, outcome |-> "none", value |-> 0]

\* no QueryBuilder has been constructed
NoQueryBuilder ==
    /\ qbHeap = EmptyMap
    /\ qbLast = NoBuilderCall
    /\ qbReturned = <<>>

-----------------------------------------------------------------------------
(* Plugin objects: the inputs of registerPlugin.  Plugin objects 1 and 3   *)
(* carry the same id; every hook is optional, and the objects differ in    *)
(* the hooks they have.                                                    *)

PluginObjs == 1 .. NPlugins

Hooks == {"onLoad", "onInit", "onDestroy"}

PluginId(p) == IF p % 2 = 1 THEN "a" ELSE "b"

PluginHooks(p) ==
    CASE p % 4 = 1 -> {"onLoad", "onInit", "onDestroy"}
      [] p % 4 = 2 -> {"onInit", "onDestroy"}
      [] p % 4 = 3 -> {"onLoad"}
      [] OTHER     -> {}

\* the descriptor a plugin's onLoad hook may register with the ConfigManager
DescriptorOf(p) == [id |-> IF p % 2 = 1 THEN "main" ELSE "aux", by |-> p]

-----------------------------------------------------------------------------
(* ConfigManager *)

CreateDefaultConfig ==
    [app |-> [name |-> "Nexus Admin", version |-> "0.1.0",
              environment |-> "development", debug |-> FALSE,
              baseUrl |-> "http://localhost:3000"],
     plugins |-> [registry |-> [dataSources |-> EmptyMap, authProviders |-> EmptyMap]],
     security |-> [csrf |-> FALSE, cors |-> [enabled |-> FALSE],
                   rateLimit |-> [enabled |-> FALSE]],
     ui |-> [theme |-> "default"]]

\* { ...a, ...b }: the keys of both, a key of both with the value of b
Spread(a, b) == [k \in (DOMAIN a) \cup (DOMAIN b) |-> IF k \in DOMAIN b THEN b[k] ELSE a[k]]

\* partial.section || {}
OrEmpty(partial, section) == IF section \in DOMAIN partial THEN partial[section] ELSE EmptyMap

\* a merge that spreads the top level only
MergeConfigShallow(cfg, partial) == Spread(cfg, partial)

\* mergeConfig(partial): the config afterwards
MergeConfig(cfg, partial) ==
    LET pl == OrEmpty(partial, "plugins")
    IN  [Spread(cfg, partial) EXCEPT
            !.app = Spread(cfg.app, OrEmpty(partial, "app")),
            !.plugins = [Spread(cfg.plugins, pl) EXCEPT
                            !.registry = Spread(cfg.plugins.registry, OrEmpty(pl, "registry"))],
            !.security = Spread(cfg.security, OrEmpty(partial, "security")),
            !.ui = Spread(cfg.ui, OrEmpty(partial, "ui"))]

\* new ConfigManager() without an argument
UndefinedConfig == [undefined |-> TRUE]

\* constructor(initialConfig?)
ConfigManagerConstructor(initial) ==
    IF initial = UndefinedConfig
    THEN CreateDefaultConfig
    ELSE MergeConfig(CreateDefaultConfig, initial)

\* registerAuthProvider that writes to the dataSources registry
RegisterIntoDataSources(cfg, d) ==
    [cfg EXCEPT !.plugins.registry.dataSources = MapSet(@, d.id, d)]

\* this.config.plugins.registry.dataSources[config.id] = config
RegisterDataSource(cfg, d) ==
    [cfg EXCEPT !.plugins.registry.dataSources = MapSet(@, d.id, d)]

\* this.config.plugins.registry.authProviders[config.id] = config
RegisterAuthProvider(cfg, d) ==
    [cfg EXCEPT !.plugins.registry.authProviders = MapSet(@, d.id, d)]

GetConfig(ref) == heap[ref]

-----------------------------------------------------------------------------
(* NexusKernel: construction *)

Ref(kind, n) == <<kind, n>>

\* the ConfigManager objects that exist: the kernel's, and one that is not the kernel's
ConfigRefs == {Ref("ConfigManager", 1), Ref("ConfigManager", 2)}

KernelConstructorAlt ==
    [configManager |-> Ref("ConfigManager", 1),
     services |-> EmptyMap,
     instances |->
        MapSet(MapSet(MapSet(MapSet(MapSet(EmptyMap,
            "nexus:kernel", Ref("NexusKernel", 1)),
            "nexus:container", Ref("DIContainer", 1)),
            "nexus:event-bus", Ref("EventBus", 1)),
            "nexus:logger", Ref("Logger", 1)),
            "nexus:config", Ref("ConfigManager", 2))]

KernelConstructor ==
    [configManager |-> Ref("ConfigManager", 1),
     services |-> EmptyMap,
     instances |->
        MapSet(MapSet(MapSet(MapSet(MapSet(EmptyMap,
            "nexus:kernel", Ref("NexusKernel", 1)),
            "nexus:container", Ref("DIContainer", 1)),
            "nexus:event-bus", Ref("EventBus", 1)),
            "nexus:logger", Ref("Logger", 1)),
            "nexus:config", Ref("ConfigManager", 1))]

GetConfiguration == GetConfig(configManager)

NoCall == [call |-> 0, op |-> "none", arg |-> 0]

NoResult == [call |-> 0, op |-> "none", arg |-> 0, before |-> 0, outcome |-> "none",
             error |-> "none", log |-> <<>>]

\* no error, and the Error resolve throws: its message names the token
NoError == <<"none", "none">>

NotFound(token) == <<"Service not found in container", token>>

NoOp == [n |-> 0, op |-> "none", token |-> "none", outcome |-> "none",
         value |-> Ref("none", 0), invoked |-> "none", error |-> NoError]

InitKernel ==
    /\ plugins = <<>>
    /\ initialized = FALSE
    /\ configManager = KernelConstructor.configManager
    /\ services = KernelConstructor.services
    /\ instances = KernelConstructor.instances
    /\ heap = [r \in ConfigRefs |-> CreateDefaultConfig]
    /\ calls = {}
    /\ pending = {}
    /\ ncalls = 0
    /\ invoc = NoCall
    /\ last = NoResult
    /\ emitted = <<>>
    /\ hooksInvoked = [h \in PluginObjs \X Hooks |-> 0]
    /\ destroyed = FALSE
    /\ returnedDescs = {}
    /\ factoryCalls = EmptyMap
    /\ containerOp = NoOp
    /\ NewEventBus
    /\ initialConfig = UndefinedConfig
    /\ regLog = <<>>
    /\ NoDataSource
    /\ NoManager
    /\ NoQueryBuilder

-----------------------------------------------------------------------------
(* DIContainer *)

\* the object a factory returns: every invocation constructs a new one
Made(f, n) == Ref(f, n)

\* number of factory invocations so far
Invocations ==
    LET F[T \in SUBSET DOMAIN factoryCalls] ==
            IF T = {} THEN 0
            ELSE LET t == CHOOSE x \in T : TRUE IN factoryCalls[t] + F[T \ {t}]
    IN  F[DOMAIN factoryCalls]

\* resolve(token): the outcome, the instances map afterwards and the factory
\* that was invoked ("none" when no factory ran)
ResolveNoMemo(token) ==
    IF MapHas(instances, token)
    THEN [outcome |-> "returned", value |-> instances[token],
          instances |-> instances, invoked |-> "none", error |-> NoError]
    ELSE IF MapHas(services, token)
    THEN LET factory == services[token]
             instance == Made(factory, Invocations + 1)
         IN  [outcome |-> "returned", value |-> instance,
              instances |-> instances, invoked |-> factory, error |-> NoError]
    ELSE [outcome |-> "threw", value |-> Ref("none", 0),
          instances |-> instances, invoked |-> "none", error |-> NotFound(token)]

\* resolve(token) that returns undefined for an unbound token and remembers it
ResolveBindsOnMiss(token) ==
    IF MapHas(instances, token)
    THEN [outcome |-> "returned", value |-> instances[token],
          instances |-> instances, invoked |-> "none", error |-> NoError]
    ELSE IF MapHas(services, token)
    THEN LET factory == services[token]
             instance == Made(factory, Invocations + 1)
         IN  [outcome |-> "returned", value |-> instance,
              instances |-> MapSet(instances, token, instance), invoked |-> factory,
              error |-> NoError]
    ELSE [outcome |-> "returned", value |-> Ref("undefined", 0),
          instances |-> MapSet(instances, token, Ref("undefined", 0)),
          invoked |-> "none", error |-> NoError]

Resolve(token) ==
    IF MapHas(instances, token)
    THEN [outcome |-> "returned", value |-> instances[token],
          instances |-> instances, invoked |-> "none", error |-> NoError]
    ELSE IF MapHas(services, token)
    THEN LET factory == services[token]
             instance == Made(factory, Invocations + 1)
         IN  [outcome |-> "returned", value |-> instance,
              instances |-> MapSet(instances, token, instance), invoked |-> factory,
              error |-> NoError]
    ELSE [outcome |-> "threw", value |-> Ref("none", 0),
          instances |-> instances, invoked |-> "none", error |-> NotFound(token)]

\* has(token)
Has(token) == MapHas(instances, token) \/ MapHas(services, token)

-----------------------------------------------------------------------------
(* NexusKernel: registerPlugin, bootstrap, destroy *)

Range(s) == {s[i] : i \in 1 .. Len(s)}

HookOf(op) ==
    CASE op = "registerPlugin" -> "onLoad"
      [] op = "bootstrap"      -> "onInit"
      [] OTHER                 -> "onDestroy"

\* this.plugins.has(plugin.id)
IsRegisteredSameObject(p) == p \in Range(plugins)

IsRegistered(p) == \E i \in 1 .. Len(plugins) : PluginId(plugins[i]) = PluginId(p)

\* this.plugins.set(plugin.id, plugin): an existing key keeps its position
PluginsSet(reg, p) ==
    IF \E i \in 1 .. Len(reg) : PluginId(reg[i]) = PluginId(p)
    THEN [i \in 1 .. Len(reg) |-> IF PluginId(reg[i]) = PluginId(p) THEN p ELSE reg[i]]
    ELSE Append(reg, p)

\* if (this.initialized) throw
AlreadyInitializedNever == FALSE

AlreadyInitialized == initialized

\* One turn of `for (const plugin of this.plugins.values())': the registry
\* positions whose hook is invoked before the method suspends again, when the
\* iterator stands after position `from'.  The Map iterator is live: it sees
\* the plugins registered while the method was suspended.
HooksToStartAll(reg, from, hook) ==
    LET S == {i \in from + 1 .. Len(reg) : hook \in PluginHooks(reg[i])}
        F[T \in SUBSET S] ==
            IF T = {} THEN <<>>
            ELSE LET m == CHOOSE x \in T : \A y \in T : x >= y
                 IN  Append(F[T \ {m}], m)
    IN  F[S]

HooksToStart(reg, from, hook) ==
    LET S == {i \in from + 1 .. Len(reg) : hook \in PluginHooks(reg[i])}
    IN  IF S = {} THEN <<>> ELSE <<CHOOSE x \in S : \A y \in S : x <= y>>

Event(name, p) == [name |-> name, plugin |-> p]

\* this.initialized = true; this.eventBus.emit('kernel:ready')
BootstrapFinishNoFlag ==
    [initialized |-> initialized, events |-> <<Event("kernel:ready", 0)>>]

BootstrapFinish ==
    [initialized |-> TRUE, events |-> <<Event("kernel:ready", 0)>>]

\* this.eventBus.emit('kernel:destroyed'); this.initialized = false
DestroyFinishNoReset ==
    [initialized |-> initialized, events |-> <<Event("kernel:destroyed", 0)>>]

DestroyFinish ==
    [initialized |-> FALSE, events |-> <<Event("kernel:destroyed", 0)>>]

Result(c, outcome, error) ==
    [call |-> c.call, op |-> c.op, arg |-> c.arg, before |-> c.before,
     outcome |-> outcome, error |-> error, log |-> c.log]

\* the hook invocations of plugins `ps' (a sequence) are counted
CountHooks(ps, hook) ==
    [h \in DOMAIN hooksInvoked |->
        hooksInvoked[h] + Cardinality({i \in 1 .. Len(ps) : h = <<ps[i], hook>>})]

\* The body of bootstrap and destroy from the loop on: `c' is the call with
\* its iterator position, `rest' the other calls in flight, `pend' the other
\* pending hooks.
Loop(c, rest, pend) ==
    LET hook == HookOf(c.op)
        ks == HooksToStart(plugins, c.cursor, hook)
        ps == [i \in 1 .. Len(ks) |-> plugins[ks[i]]]
        fin == IF c.op = "bootstrap" THEN BootstrapFinish ELSE DestroyFinish
    IN  IF ks = <<>>
        THEN /\ initialized' = fin.initialized
             /\ emitted' = emitted \o fin.events
             /\ destroyed' = (c.op = "destroy")
             /\ last' = Result(c, "resolved", "none")
             /\ calls' = rest
             /\ pending' = pend
             /\ UNCHANGED hooksInvoked
        ELSE /\ calls' = rest \cup {[c EXCEPT !.cursor = ks[Len(ks)], !.log = @ \o ps]}
             /\ pending' = pend \cup {[call |-> c.call, plugin |-> ps[i], hook |-> hook] :
                                        i \in 1 .. Len(ps)}
             /\ hooksInvoked' = CountHooks(ps, hook)
             /\ UNCHANGED <<initialized, emitted, last, destroyed>>

NewCall(op, arg) ==
    [call |-> ncalls + 1, op |-> op, arg |-> arg, before |-> Len(plugins),
     cursor |-> 0, log |-> <<>>, reg |-> FALSE]

Issue(op, arg) ==
    /\ ncalls < MaxCalls
    /\ ncalls' = ncalls + 1
    /\ invoc' = [call |-> ncalls + 1, op |-> op, arg |-> arg]

\* registerPlugin with the await of onLoad left out
RegisterPluginNoAwait(p) ==
    /\ Issue("registerPlugin", p)
    /\ IF IsRegistered(p)
       THEN /\ last' = Result(NewCall("registerPlugin", p), "rejected", "already registered")
            /\ UNCHANGED <<plugins, calls, pending, emitted, hooksInvoked>>
       ELSE /\ plugins' = PluginsSet(plugins, p)
            /\ emitted' = Append(emitted, Event("plugin:registered", p))
            /\ last' = Result(NewCall("registerPlugin", p), "resolved", "none")
            /\ IF "onLoad" \in PluginHooks(p)
               THEN /\ pending' = pending \cup
                                    {[call |-> ncalls + 1, plugin |-> p, hook |-> "onLoad"]}
                    /\ hooksInvoked' = CountHooks(<<p>>, "onLoad")
                    /\ UNCHANGED calls
               ELSE UNCHANGED <<calls, pending, hooksInvoked>>
    /\ UNCHANGED <<initialized, destroyed, configManager, heap, returnedDescs,
                   services, instances, factoryCalls, containerOp, restVars>>

RegisterPlugin(p) ==
    /\ Issue("registerPlugin", p)
    /\ IF IsRegistered(p)
       THEN /\ last' = Result(NewCall("registerPlugin", p), "rejected", "already registered")
            /\ UNCHANGED <<plugins, calls, pending, emitted, hooksInvoked>>
       ELSE /\ plugins' = PluginsSet(plugins, p)
            /\ IF "onLoad" \in PluginHooks(p)
               THEN /\ calls' = calls \cup {[NewCall("registerPlugin", p) EXCEPT !.log = <<p>>]}
                    /\ pending' = pending \cup
                                    {[call |-> ncalls + 1, plugin |-> p, hook |-> "onLoad"]}
                    /\ hooksInvoked' = CountHooks(<<p>>, "onLoad")
                    /\ UNCHANGED <<last, emitted>>
               ELSE /\ emitted' = Append(emitted, Event("plugin:registered", p))
                    /\ last' = Result(NewCall("registerPlugin", p), "resolved", "none")
                    /\ UNCHANGED <<calls, pending, hooksInvoked>>
    /\ UNCHANGED <<initialized, destroyed, configManager, heap, returnedDescs,
                   services, instances, factoryCalls, containerOp, restVars>>

Bootstrap ==
    /\ Issue("bootstrap", 0)
    /\ IF AlreadyInitialized
       THEN /\ last' = Result(NewCall("bootstrap", 0), "rejected", "already initialized")
            /\ UNCHANGED <<initialized, destroyed, calls, pending, emitted, hooksInvoked>>
       ELSE Loop(NewCall("bootstrap", 0), calls, pending)
    /\ UNCHANGED <<plugins, configManager, heap, returnedDescs,
                   services, instances, factoryCalls, containerOp, restVars>>

Destroy ==
    /\ Issue("destroy", 0)
    /\ Loop(NewCall("destroy", 0), calls, pending)
    /\ UNCHANGED <<plugins, configManager, heap, returnedDescs,
                   services, instances, factoryCalls, containerOp, restVars>>

\* A pending onLoad hook resolves 'nexus:config' from the container of its
\* context and registers its descriptor (examples/demo.ts, lib/nexus.ts).
OnLoadRegisters(c) ==
    /\ c.op = "registerPlugin"
    /\ ~c.reg
    /\ [call |-> c.call, plugin |-> c.arg, hook |-> "onLoad"] \in pending
    /\ LET r == Resolve("nexus:config")
       IN  /\ r.outcome = "returned"
           /\ r.value \in DOMAIN heap
           /\ heap' = [heap EXCEPT ![r.value] = RegisterDataSource(@, DescriptorOf(c.arg))]
    /\ calls' = (calls \ {c}) \cup {[c EXCEPT !.reg = TRUE]}
    /\ UNCHANGED <<plugins, initialized, destroyed, configManager, pending, ncalls, invoc,
                   last, emitted, hooksInvoked, returnedDescs,
                   services, instances, factoryCalls, containerOp, restVars>>

\* The awaited hook of call c throws or rejects: the method rejects.
HookFails(c, h) ==
    /\ h.call = c.call
    /\ pending' = pending \ {h}
    /\ calls' = calls \ {c}
    /\ last' = Result(c, "rejected", "hook failed")
    /\ UNCHANGED <<plugins, initialized, destroyed, configManager, heap, ncalls, invoc,
                   emitted, hooksInvoked, returnedDescs,
                   services, instances, factoryCalls, containerOp, restVars>>

\* The awaited hook of call c completes: the method goes on after its await.
HookReturns(c, h) ==
    /\ h.call = c.call
    /\ IF c.op = "registerPlugin"
       THEN /\ emitted' = Append(emitted, Event("plugin:registered", c.arg))
            /\ last' = Result(c, "resolved", "none")
            /\ calls' = calls \ {c}
            /\ pending' = pending \ {h}
            /\ returnedDescs' = returnedDescs \cup
                    (IF c.reg THEN {DescriptorOf(c.arg).id} ELSE {})
            /\ UNCHANGED <<initialized, destroyed, hooksInvoked>>
       ELSE /\ Loop(c, calls \ {c}, pending \ {h})
            /\ UNCHANGED returnedDescs
    /\ UNCHANGED <<plugins, configManager, heap, ncalls, invoc,
                   services, instances, factoryCalls, containerOp, restVars>>

NextKernel ==
    \/ \E p \in PluginObjs : RegisterPlugin(p)
    \/ Bootstrap
    \/ Destroy
    \/ \E c \in calls : OnLoadRegisters(c)
    \/ \E c \in calls : \E h \in pending : HookFails(c, h)
    \/ \E c \in calls : \E h \in pending : HookReturns(c, h)

SpecKernel == InitKernel /\ [][NextKernel]_vars

-----------------------------------------------------------------------------
(* DIContainer on its own: any sequence of registerSingleton,              *)
(* registerService and resolve on a new container                          *)

Tokens == {"t1", "t2"}

Factories == {"f1", "f2"}

Singletons == {Ref("obj", 1), Ref("obj", 2)}

InitContainer ==
    /\ services = EmptyMap
    /\ instances = EmptyMap
    /\ factoryCalls = EmptyMap
    /\ containerOp = NoOp
    /\ plugins = <<>>
    /\ initialized = FALSE
    /\ configManager = Ref("ConfigManager", 1)
    /\ heap = [r \in ConfigRefs |-> CreateDefaultConfig]
    /\ calls = {}
    /\ pending = {}
    /\ ncalls = 0
    /\ invoc = NoCall
    /\ last = NoResult
    /\ emitted = <<>>
    /\ hooksInvoked = [h \in PluginObjs \X Hooks |-> 0]
    /\ destroyed = FALSE
    /\ returnedDescs = {}
    /\ NewEventBus
    /\ initialConfig = UndefinedConfig
    /\ regLog = <<>>
    /\ NoDataSource
    /\ NoManager
    /\ NoQueryBuilder

kernelVars == <<plugins, initialized, configManager, heap, calls, pending, ncalls,
                invoc, last, emitted, hooksInvoked, destroyed, returnedDescs>>

containerVars == <<services, instances, factoryCalls, containerOp>>

\* the variables the EventBus on its own leaves alone
notBusVars == <<kernelVars, containerVars, cfgVars, dsVars, dsmVars, qbVars>>

\* no kernel has been constructed: its fields and its container are empty
NoKernel ==
    /\ plugins = <<>>
    /\ initialized = FALSE
    /\ calls = {}
    /\ pending = {}
    /\ ncalls = 0
    /\ invoc = NoCall
    /\ last = NoResult
    /\ emitted = <<>>
    /\ hooksInvoked = EmptyMap
    /\ destroyed = FALSE
    /\ returnedDescs = {}
    /\ services = EmptyMap
    /\ instances = EmptyMap
    /\ factoryCalls = EmptyMap
    /\ containerOp = NoOp

ContainerOp(op, token, outcome, value, invoked, error) ==
    [n |-> containerOp.n + 1, op |-> op, token |-> token, outcome |-> outcome,
     value |-> value, invoked |-> invoked, error |-> error]

RegisterSingleton(token, instance) ==
    /\ containerOp.n < MaxContainerOps
    /\ instances' = MapSet(instances, token, instance)
    /\ containerOp' = ContainerOp("registerSingleton", token, "returned", instance, "none", NoError)
    /\ UNCHANGED <<services, factoryCalls, kernelVars, restVars>>

\* registerService, were it to drop the instance of the token it rebinds
RegisterServiceRebinds(token, factory) ==
    /\ containerOp.n < MaxContainerOps
    /\ services' = MapSet(services, token, factory)
    /\ instances' = MapDelete(instances, token)
    /\ containerOp' = ContainerOp("registerService", token, "returned", Ref("none", 0),
                                   "none", NoError)
    /\ UNCHANGED <<factoryCalls, kernelVars, restVars>>

RegisterService(token, factory) ==
    /\ containerOp.n < MaxContainerOps
    /\ services' = MapSet(services, token, factory)
    /\ containerOp' = ContainerOp("registerService", token, "returned", Ref("none", 0),
                                   "none", NoError)
    /\ UNCHANGED <<instances, factoryCalls, kernelVars, restVars>>

ResolveCall(token) ==
    /\ containerOp.n < MaxContainerOps
    /\ LET r == Resolve(token)
       IN  /\ instances' = r.instances
           /\ factoryCalls' =
                IF r.invoked = "none" THEN factoryCalls
                ELSE MapSet(factoryCalls, token,
                            (IF MapHas(factoryCalls, token) THEN factoryCalls[token] ELSE 0) + 1)
           /\ containerOp' = ContainerOp("resolve", token, r.outcome, r.value, r.invoked, r.error)
    /\ UNCHANGED <<services, kernelVars, restVars>>

NextContainer ==
    \/ \E t \in Tokens, x \in Singletons : RegisterSingleton(t, x)
    \/ \E t \in Tokens, f \in Factories : RegisterService(t, f)
    \/ \E t \in Tokens : ResolveCall(t)

SpecContainer == InitContainer /\ [][NextContainer]_vars

-----------------------------------------------------------------------------
(* EventBus on its own.  Its methods are synchronous; a handler is code of  *)
(* the host that runs inside emit, on the emitting call stack.  While it    *)
(* runs, a handler may call any method of the bus, emit included, and then  *)
(* returns or throws; an exception goes up through forEach and emit, and    *)
(* through the handlers that called them, to the host.  The bus is used by  *)
(* the host when no emit is running, and by the running handler otherwise.  *)

Top == stack[Len(stack)]

Front(st) == SubSeq(st, 1, Len(st) - 1)

\* the host, or the handler that is running, can call the bus
CanAct == IF stack = <<>> THEN TRUE ELSE Top.kind = "handler"

\* the handlers subscribed to `name', in subscription order
Subscribed(ev, name) == IF MapHas(ev, name) THEN SetValues(ev[name]) ELSE <<>>

\* the Set the forEach of emit frame f iterates: the one stored under the
\* event name, or the Set that this.events.delete has removed from the Map
\* since (such a Set cannot change any more)
Iterated(f) == IF f.live THEN events[f.event] ELSE f.frozen

\* this.events.delete(name): the forEach calls on the Set of `name' keep the Set S
Detach(st, name, S) ==
    [i \in 1 .. Len(st) |->
        IF st[i].kind = "emit" /\ st[i].live /\ st[i].event = name
        THEN [st[i] EXCEPT !.live = FALSE, !.frozen = S]
        ELSE st[i]]

\* empty slots are dropped when no forEach is running
Settle(ev, st) == IF st = <<>> THEN [k \in DOMAIN ev |-> SetValues(ev[k])] ELSE ev

\* on(event, handler): the events Map afterwards
OnBus(ev, name, fn) ==
    MapSet(ev, name, SetAdd(IF MapHas(ev, name) THEN ev[name] ELSE <<>>, fn))

\* off(event, handler?) that drops every handler of the event
OffBusWholeEvent(ev, st, name, fn) ==
    [events |-> MapDelete(ev, name),
     stack |-> IF MapHas(ev, name) THEN Detach(st, name, ev[name]) ELSE st]

\* off(event, handler?): the events Map and the stack afterwards
OffBus(ev, st, name, fn) ==
    IF fn = Undefined
    THEN [events |-> MapDelete(ev, name),
          stack |-> IF MapHas(ev, name) THEN Detach(st, name, ev[name]) ELSE st]
    ELSE IF MapHas(ev, name)
    THEN LET S == SetDelete(ev[name], fn)
         IN  IF SetSize(S) = 0
             THEN [events |-> MapDelete(ev, name), stack |-> Detach(st, name, S)]
             ELSE [events |-> MapSet(ev, name, S), stack |-> st]
    ELSE [events |-> ev, stack |-> st]

\* Event names, handler functions and payloads are interchangeable: the
\* first call of a behaviour is one with the first of each.
BusCall(op, name, fn) ==
    /\ CanAct
    /\ busLast.n < MaxBusOps
    /\ busLast.n = 0 => name = "e1" /\ fn.h \in {"h1", "undefined"}
    /\ busLast' = [n |-> busLast.n + 1, op |-> op, event |-> name, fn |-> fn]

On(name, h) ==
    /\ BusCall("on", name, Plain(h))
    /\ events' = OnBus(events, name, Plain(h))
    /\ closures' = closures \cup {<<name, h>>}
    /\ UNCHANGED <<stack, busLog, emitLog, notBusVars>>

Once(name, h) ==
    /\ BusCall("once", name, Wrapped(h, busLast.n + 1))
    /\ events' = OnBus(events, name, Wrapped(h, busLast.n + 1))
    /\ UNCHANGED <<stack, closures, busLog, emitLog, notBusVars>>

\* off(name, h) and off(name).  The closure `() => this.off(event, handler)'
\* that on(event, handler) returned is this call with its event and handler.
\* off(name, h) for a handler that on() was never given for `name' finds
\* nothing to delete and is left out.
Off(name, fn) ==
    /\ fn # Undefined => <<name, fn.h>> \in closures
    /\ BusCall("off", name, fn)
    /\ LET r == OffBus(events, stack, name, fn)
       IN  /\ events' = Settle(r.events, r.stack)
           /\ stack' = r.stack
    /\ UNCHANGED <<closures, busLog, emitLog, notBusVars>>

EmitFrame(id, name, data) ==
    [kind |-> "emit", id |-> id, event |-> name, data |-> data, pos |-> 0,
     live |-> TRUE, frozen |-> <<>>, fn |-> Undefined]

HandlerFrame(f, fn) ==
    [kind |-> "handler", id |-> f.id, event |-> f.event, data |-> f.data, pos |-> 0,
     live |-> FALSE, frozen |-> <<>>, fn |-> fn]

\* emit(name, data) up to the forEach
Emit(name, data) ==
    /\ BusCall("emit", name, Undefined)
    /\ busLast.n = 0 => data = "p1"
    /\ LET id == Len(emitLog) + 1
           entry == [event |-> name, data |-> data, snap |-> Subscribed(events, name),
                     root |-> IF stack = <<>> THEN id ELSE stack[1].id,
                     outcome |-> IF MapHas(events, name) THEN "running" ELSE "returned"]
       IN  /\ emitLog' = Append(emitLog, entry)
           /\ stack' = IF MapHas(events, name)
                       THEN Append(stack, EmitFrame(id, name, data))
                       ELSE stack
    /\ UNCHANGED <<events, closures, busLog, notBusVars>>

\* one turn of handlers.forEach: the next entry of the Set is invoked, or the
\* forEach is over and emit returns
ForEach ==
    /\ stack # <<>>
    /\ Top.kind = "emit"
    /\ LET f == Top
           S == Iterated(f)
           rest == {i \in f.pos + 1 .. Len(S) : S[i] # Empty}
       IN  IF rest = {}
           THEN /\ stack' = Front(stack)
                /\ events' = Settle(events, Front(stack))
                /\ emitLog' = [emitLog EXCEPT ![f.id].outcome = "returned"]
                /\ UNCHANGED busLog
           ELSE LET i == CHOOSE x \in rest : \A y \in rest : x <= y
                IN  /\ stack' = Append(Append(Front(stack), [f EXCEPT !.pos = i]),
                                       HandlerFrame(f, S[i]))
                    /\ busLog' = Append(busLog, [fn |-> S[i], event |-> f.event,
                                                 data |-> f.data, id |-> f.id,
                                                 root |-> stack[1].id])
                    /\ UNCHANGED <<events, emitLog>>
    /\ UNCHANGED <<busLast, closures, notBusVars>>

\* The running handler returns.  The closure made by once has called the
\* host's handler first and calls this.off(event, wrappedHandler) now.
HandlerReturns ==
    /\ stack # <<>>
    /\ Top.kind = "handler"
    /\ LET f == Top
           r == IF f.fn.once > 0
                THEN OffBus(events, Front(stack), f.event, f.fn)
                ELSE [events |-> events, stack |-> Front(stack)]
       IN  /\ events' = r.events
           /\ stack' = r.stack
    /\ UNCHANGED <<busLast, closures, busLog, emitLog, notBusVars>>

\* The running handler throws: every emit in progress ends with the exception.
HandlerThrows ==
    /\ stack # <<>>
    /\ Top.kind = "handler"
    /\ stack' = <<>>
    /\ events' = Settle(events, <<>>)
    /\ emitLog' = [i \in 1 .. Len(emitLog) |->
                     IF \E k \in 1 .. Len(stack) : stack[k].kind = "emit" /\ stack[k].id = i
                     THEN [emitLog[i] EXCEPT !.outcome = "threw"]
                     ELSE emitLog[i]]
    /\ UNCHANGED <<busLast, closures, busLog, notBusVars>>

NextEventBus ==
    \/ \E name \in EventNames, h \in HandlerFns : On(name, h)
    \/ \E name \in EventNames, h \in HandlerFns : Once(name, h)
    \/ \E name \in EventNames, h \in HandlerFns : Off(name, Plain(h))
    \/ \E name \in EventNames : Off(name, Undefined)
    \/ \E name \in EventNames, data \in Payloads : Emit(name, data)
    \/ ForEach
    \/ HandlerReturns
    \/ HandlerThrows

\* no ConfigManager has been constructed
NoConfigManager ==
    /\ configManager = Ref("none", 0)
    /\ heap = EmptyMap
    /\ initialConfig = UndefinedConfig
    /\ regLog = <<>>

\* a new EventBus; no kernel, container or ConfigManager exists
InitEventBus ==
    /\ NewEventBus
    /\ NoKernel
    /\ NoConfigManager
    /\ NoDataSource
    /\ NoManager
    /\ NoQueryBuilder

SpecEventBus == InitEventBus /\ [][NextEventBus]_vars

-----------------------------------------------------------------------------
(* ConfigManager on its own: constructed with a partial config, or with     *)
(* none, and then any sequence of registerDataSource and                    *)
(* registerAuthProvider.                                                    *)

\* a section that the partial config does not have
Absent == [absent |-> TRUE]

\* the sections a partial config may carry
AppParts == {[debug |-> TRUE], [name |-> "My App", locale |-> "en"]}

PluginsParts ==
    {[registry |-> [dataSources |-> MapSet(EmptyMap, "main", [id |-> "main", by |-> 0])]],
     [autoload |-> TRUE, registry |-> [cache |-> TRUE]]}

SecurityParts == {[cors |-> [enabled |-> TRUE, origin |-> "*"], audit |-> TRUE]}

UiParts == {[theme |-> "dark"]}

\* the partial config with the sections that are not Absent
Partial(a, pl, se, u) ==
    LET all == [app |-> a, plugins |-> pl, security |-> se, ui |-> u]
    IN  [k \in {x \in DOMAIN all : all[x] # Absent} |-> all[k]]

PartialConfigs ==
    {Partial(a, pl, se, u) :
        a \in AppParts \cup {Absent}, pl \in PluginsParts \cup {Absent},
        se \in SecurityParts \cup {Absent}, u \in UiParts \cup {Absent}}

\* the descriptors the host registers: two ids, two descriptors of each
Descriptors == {[id |-> i, by |-> v] : i \in {"main", "aux"}, v \in 1 .. 2}

InitConfig ==
    /\ initialConfig \in PartialConfigs \cup {UndefinedConfig}
    /\ configManager = Ref("ConfigManager", 1)
    /\ heap = MapSet(EmptyMap, configManager, ConfigManagerConstructor(initialConfig))
    /\ regLog = <<>>
    /\ NoKernel
    /\ NewEventBus
    /\ NoDataSource
    /\ NoManager
    /\ NoQueryBuilder

notConfigVars == <<plugins, initialized, configManager, calls, pending, ncalls, invoc, last,
                   emitted, hooksInvoked, destroyed, returnedDescs, containerVars, busVars,
                   dsVars, dsmVars, qbVars>>

RegisterDataSourceCall(d) ==
    /\ Len(regLog) < MaxConfigOps
    /\ heap' = [heap EXCEPT ![configManager] = RegisterDataSource(@, d)]
    /\ regLog' = Append(regLog, [registry |-> "dataSources", config |-> d])
    /\ UNCHANGED <<initialConfig, notConfigVars>>

RegisterAuthProviderCall(d) ==
    /\ Len(regLog) < MaxConfigOps
    /\ heap' = [heap EXCEPT ![configManager] = RegisterAuthProvider(@, d)]
    /\ regLog' = Append(regLog, [registry |-> "authProviders", config |-> d])
    /\ UNCHANGED <<initialConfig, notConfigVars>>

NextConfig ==
    \/ \E d \in Descriptors : RegisterDataSourceCall(d)
    \/ \E d \in Descriptors : RegisterAuthProviderCall(d)

SpecConfig == InitConfig /\ [][NextConfig]_vars

-----------------------------------------------------------------------------
(* BaseDataSource on its own.  query, connect and disconnect are the        *)
(* adapter's: query returns a promise that resolves with some rows or       *)
(* rejects, after any delay, and the adapter sets _connected when it        *)
(* connects and disconnects.  A CRUD method runs up to its await of query   *)
(* in one step and goes on when the promise settles.  One call is in        *)
(* flight at a time.                                                        *)

\* table names, as the sequences of their characters: two that match
\* /^[a-zA-Z][a-zA-Z0-9_]*$/, two that do not, and the empty string
Tables == {<<"t", "_", "1">>, <<"T">>, <<"1", "b", "a", "d">>, <<"t", "-", "1">>, <<>>}

Letters ==
    {"a", "b", "c", "d", "e", "f", "g", "h", "i", "j", "k", "l", "m",
     "n", "o", "p", "q", "r", "s", "t", "u", "v", "w", "x", "y", "z",
     "A", "B", "C", "D", "E", "F", "G", "H", "I", "J", "K", "L", "M",
     "N", "O", "P", "Q", "R", "S", "T", "U", "V", "W", "X", "Y", "Z"}

Digits == {"0", "1", "2", "3", "4", "5", "6", "7", "8", "9"}

\* validateTableName(tableName): the error it throws, or "ok"
ValidateTableName(tableName) ==
    IF tableName = <<>>
    THEN "SchemaError"
    ELSE IF /\ tableName[1] \in Letters
            /\ \A i \in 2 .. Len(tableName) : tableName[i] \in Letters \cup Digits \cup {"_"}
    THEN "ok"
    ELSE "SchemaError"

\* validateQuery, were it to take an update with an empty where list for one
\* without a where list
ValidateQueryNonEmptyWhere(query) ==
    IF query.table = <<>> THEN "QueryError"
    ELSE IF ValidateTableName(query.table) # "ok" THEN ValidateTableName(query.table)
    ELSE IF query.operation \notin {"select", "insert", "update", "delete"} THEN "QueryError"
    ELSE IF query.operation = "insert" /\ query.data = "undefined" THEN "QueryError"
    ELSE IF query.operation = "update"
            /\ (query.data = "undefined" \/ query.where \in {"undefined", "[]"})
         THEN "QueryError"
    ELSE IF query.operation = "delete" /\ query.where = "undefined" THEN "QueryError"
    ELSE "ok"

\* validateQuery(query): the error it throws, or "ok"
ValidateQuery(query) ==
    IF query.table = <<>> THEN "QueryError"
    ELSE IF ValidateTableName(query.table) # "ok" THEN ValidateTableName(query.table)
    ELSE IF query.operation \notin {"select", "insert", "update", "delete"} THEN "QueryError"
    ELSE IF query.operation = "insert" /\ query.data = "undefined" THEN "QueryError"
    ELSE IF query.operation = "update"
            /\ (query.data = "undefined" \/ query.where = "undefined") THEN "QueryError"
    ELSE IF query.operation = "delete" /\ query.where = "undefined" THEN "QueryError"
    ELSE "ok"

\* where arguments: omitted, the empty array, an array of conditions
Wheres == {"undefined", "[]", "[w1]"}

\* data arguments: omitted, a record
Datas == {"undefined", "d1"}

\* the arrays given to the bulk methods, as {where, data} of each element
ItemLists ==
    {<<>>, <<[where |-> "[w1]", data |-> "d1"]>>,
     <<[where |-> "[w1]", data |-> "d1"], [where |-> "[]", data |-> "d1"]>>}

CrudOps == {"findOne", "findMany", "create", "update", "delete", "count", "exists"}

BulkOps == {"bulkInsert", "bulkUpdate", "bulkDelete"}

\* the method a method hands each element to, or itself
HelperOf(op) ==
    CASE op = "bulkInsert" -> "create"
      [] op = "bulkUpdate" -> "update"
      [] op = "bulkDelete" -> "delete"
      [] op = "exists"     -> "count"
      [] OTHER             -> op

\* the Query a CRUD helper hands to this.query
QueryOf(helper, table, where, data) ==
    CASE helper = "findOne" ->
            [table |-> table, operation |-> "select", where |-> where,
             data |-> "undefined", limit |-> "1", fields |-> "undefined"]
      [] helper = "findMany" ->
            [table |-> table, operation |-> "select", where |-> where,
             data |-> "undefined", limit |-> "undefined", fields |-> "undefined"]
      [] helper = "create" ->
            [table |-> table, operation |-> "insert", where |-> "undefined",
             data |-> data, limit |-> "undefined", fields |-> "undefined"]
      [] helper = "update" ->
            [table |-> table, operation |-> "update", where |-> where,
             data |-> data, limit |-> "undefined", fields |-> "undefined"]
      [] helper = "delete" ->
            [table |-> table, operation |-> "delete", where |-> where,
             data |-> "undefined", limit |-> "undefined", fields |-> "undefined"]
      [] OTHER ->
            [table |-> table, operation |-> "select", where |-> where,
             data |-> "undefined", limit |-> "undefined", fields |-> "COUNT(*) as count"]

\* A CRUD helper up to its await: this.assertConnected() throws, or
\* this.query is called with the Query.
RunHelper(helper, table, where, data) ==
    IF ~dsConnected
    THEN [outcome |-> "ConnectionError", queries |-> <<>>]
    ELSE [outcome |-> "awaits", queries |-> <<QueryOf(helper, table, where, data)>>]

DsSettled(c, outcome) ==
    [op |-> c.op, table |-> c.table, where |-> c.where, data |-> c.data,
     items |-> c.items, idx |-> c.idx, connected |-> c.connected,
     queries |-> c.queries, rows |-> c.rows, outcome |-> outcome]

\* the call goes on with the helper `r' has run: it settles or awaits the query
DsGoOn(c, r) ==
    IF r.outcome = "awaits"
    THEN /\ dsCall' = [c EXCEPT !.queries = @ \o r.queries]
         /\ dsLast' = NoDsResult
    ELSE /\ dsCall' = NoDsCall
         /\ dsLast' = DsSettled(c, r.outcome)

\* the Query of the single-row operation a bulk method issues for element k
ItemQuery(c, k) ==
    QueryOf(HelperOf(c.op), c.table, c.items[k].where, c.items[k].data)

\* a bulk method, were it to start the operations of all the elements
\* together and await them all
BulkLoopAllAtOnce(c) ==
    IF c.idx = Len(c.items)
    THEN /\ dsCall' = NoDsCall
         /\ dsLast' = DsSettled(c, "returned")
    ELSE IF ~dsConnected
    THEN /\ dsCall' = NoDsCall
         /\ dsLast' = DsSettled([c EXCEPT !.idx = @ + 1], "ConnectionError")
    ELSE /\ dsCall' = [c EXCEPT !.idx = Len(c.items),
                                !.queries = [k \in 1 .. Len(c.items) |-> ItemQuery(c, k)]]
         /\ dsLast' = NoDsResult

\* the loop of a bulk method from element idx + 1 on: `for (const item of data)'
BulkLoop(c) ==
    IF c.idx = Len(c.items)
    THEN /\ dsCall' = NoDsCall
         /\ dsLast' = DsSettled(c, "returned")
    ELSE LET item == c.items[c.idx + 1]
         IN  DsGoOn([c EXCEPT !.idx = @ + 1],
                    RunHelper(HelperOf(c.op), c.table, item.where, item.data))

NewDsCall(op, table, where, data, items) ==
    [op |-> op, table |-> table, where |-> where, data |-> data, items |-> items,
     idx |-> 0, connected |-> dsConnected, queries |-> <<>>, rows |-> 0]

notDsVars == <<kernelVars, containerVars, busVars, cfgVars, dsmVars, qbVars>>

\* findOne, findMany, create, update, delete, count and exists
Crud(op, table, where, data) ==
    /\ dsCall = NoDsCall
    /\ DsGoOn(NewDsCall(op, table, where, data, <<>>),
              RunHelper(HelperOf(op), table, where, data))
    /\ UNCHANGED <<dsConnected, dsBulk, validation, notDsVars>>

\* bulkInsert, bulkUpdate and bulkDelete
Bulk(op, table, items) ==
    /\ dsCall = NoDsCall
    /\ IF ~dsBulk
       THEN BulkLoop(NewDsCall(op, table, "undefined", "undefined", items))
       ELSE /\ dsLast' = DsSettled(NewDsCall(op, table, "undefined", "undefined", items),
                                   "QueryError")
            /\ UNCHANGED dsCall
    /\ UNCHANGED <<dsConnected, dsBulk, validation, notDsVars>>

\* The awaited query resolves with `rows' rows (and `rows' rows affected).
QueryResolves(rows) ==
    /\ dsCall # NoDsCall
    /\ LET c == [dsCall EXCEPT !.rows = @ + rows]
       IN  IF HelperOf(c.op) = "create" /\ rows = 0
           THEN /\ dsCall' = NoDsCall
                /\ dsLast' = DsSettled(dsCall, "QueryError")
           ELSE IF c.op \in BulkOps
           THEN BulkLoop(c)
           ELSE /\ dsCall' = NoDsCall
                /\ dsLast' = DsSettled(c, "returned")
    /\ UNCHANGED <<dsConnected, dsBulk, validation, notDsVars>>

\* The awaited query rejects: the method rejects with the adapter's error.
QueryRejects ==
    /\ dsCall # NoDsCall
    /\ dsCall' = NoDsCall
    /\ dsLast' = DsSettled(dsCall, "AdapterError")
    /\ UNCHANGED <<dsConnected, dsBulk, validation, notDsVars>>

\* the adapter's connect and disconnect set _connected
Connect ==
    /\ ~dsConnected
    /\ dsConnected' = TRUE
    /\ UNCHANGED <<dsBulk, dsCall, dsLast, validation, notDsVars>>

Disconnect ==
    /\ dsConnected
    /\ dsConnected' = FALSE
    /\ UNCHANGED <<dsBulk, dsCall, dsLast, validation, notDsVars>>

\* a new data source, with or without the bulk capability
InitDataSource ==
    /\ dsConnected = FALSE
    /\ dsBulk \in BOOLEAN
    /\ dsCall = NoDsCall
    /\ dsLast = NoDsResult
    /\ validation = NoValidation
    /\ NoManager
    /\ NoQueryBuilder
    /\ NoKernel
    /\ NoConfigManager
    /\ NewEventBus

NextDataSource ==
    \/ \E op \in CrudOps, table \in Tables, where \in Wheres, data \in Datas :
            Crud(op, table, where, data)
    \/ \E op \in BulkOps, table \in Tables, items \in ItemLists : Bulk(op, table, items)
    \/ \E rows \in 0 .. 1 : QueryResolves(rows)
    \/ QueryRejects
    \/ Connect
    \/ Disconnect

SpecDataSource == InitDataSource /\ [][NextDataSource]_vars

-----------------------------------------------------------------------------
(* validateQuery on its own: a protected helper of BaseDataSource that an    *)
(* adapter calls with the Query it was given.  It reads no field of the     *)
(* data source.                                                             *)

\* Query.operation: the four operations and one that is none of them
Operations == {"select", "insert", "update", "delete", "upsert"}

\* the Query objects handed to validateQuery
Queries ==
    {[table |-> table, operation |-> operation, where |-> where, data |-> data,
      limit |-> "undefined", fields |-> "undefined"] :
        table \in Tables, operation \in Operations, where \in Wheres, data \in Datas}

InitValidateQuery ==
    /\ validation \in {[query |-> query, result |-> "none"] : query \in Queries}
    /\ dsConnected = FALSE
    /\ dsBulk = FALSE
    /\ dsCall = NoDsCall
    /\ dsLast = NoDsResult
    /\ NoManager
    /\ NoQueryBuilder
    /\ NoKernel
    /\ NoConfigManager
    /\ NewEventBus

\* validateQuery(query) returns or throws
ValidateQueryCall ==
    /\ validation.result = "none"
    /\ validation' = [validation EXCEPT !.result = ValidateQuery(validation.query)]
    /\ UNCHANGED <<dsConnected, dsBulk, dsCall, dsLast, notDsVars>>

NextValidateQuery == ValidateQueryCall

SpecValidateQuery == InitValidateQuery /\ [][NextValidateQuery]_vars

-----------------------------------------------------------------------------
(* The DataSourceManager on its own.  The data sources are the host's: a    *)
(* data source may be connected before it is registered, and its connect,   *)
(* disconnect and ping return promises that resolve or reject after any     *)
(* delay; isConnected() is true from the moment connect resolves to the     *)
(* moment disconnect resolves.  The EventBus is the host's too: emit runs   *)
(* the subscribers on the manager's call stack, and throws when one of      *)
(* them throws.  A method runs up to its await in one step and goes on      *)
(* when the promises it awaits settle; any number of calls are in flight.   *)

\* the data source objects the host may register; objects 1 and 3 carry
\* the same id
DataSourceObjs == {1, 2, 3}

DataSourceId(obj) == IF obj = 2 THEN "b" ELSE "a"

DataSourceIds == {"a", "b"}

\* the events the manager emits in the methods modelled
DsmEvents ==
    {"datasource:registered", "datasource:unregistered", "datasource:connected",
     "datasource:connection-failed", "datasource:primary-changed",
     "datasource:all-disconnected", "datasource:cleared"}

\* an event handed to eventBus.emit, with the id in its payload
DsmEvent(name, id) == [name |-> name, id |-> id]

\* this.dataSources.has(id), on the Map `sources'
DsmHas(sources, id) == \E i \in 1 .. Len(sources) : DataSourceId(sources[i]) = id

\* this.dataSources.get(id), on a Map that has id
DsmGet(sources, id) ==
    sources[CHOOSE i \in 1 .. Len(sources) : DataSourceId(sources[i]) = id]

\* the objects in the Map
DsmValues(sources) == {sources[i] : i \in 1 .. Len(sources)}

\* A method body runs on an execution state x: the registry and the primary
\* as it has left them, the events it has emitted, and the error it has
\* thrown ("none" while it runs).

\* this.eventBus.emit(name, {id ...}): a subscriber that throws makes emit throw
EmitDsm(x, name, id) ==
    IF x.error # "none"
    THEN x
    ELSE [x EXCEPT !.events = Append(@, DsmEvent(name, id)),
                   !.error = IF name \in dsmThrowing THEN "HandlerError" ELSE "none"]

\* setPrimary(id)
SetPrimary(x, id) ==
    IF x.error # "none"
    THEN x
    ELSE IF ~DsmHas(x.sources, id)
    THEN [x EXCEPT !.error = "NotFound"]
    ELSE EmitDsm([x EXCEPT !.primary = id], "datasource:primary-changed", id)

\* register, were it to replace the data source registered under the id
RegisterOverwrites(x, obj) ==
    LET id == DataSourceId(obj)
        x1 == EmitDsm([x EXCEPT !.sources =
                            Append(SelectSeq(@, LAMBDA o : DataSourceId(o) # id), obj)],
                      "datasource:registered", id)
    IN  IF x1.error = "none" /\ x1.primary = "undefined"
        THEN SetPrimary(x1, id)
        ELSE x1

\* register(dataSource)
Register(x, obj) ==
    LET id == DataSourceId(obj)
        x1 == EmitDsm([x EXCEPT !.sources = Append(@, obj)], "datasource:registered", id)
    IN  IF DsmHas(x.sources, id)
        THEN [x EXCEPT !.error = "AlreadyRegistered"]
        ELSE IF x1.error = "none" /\ x1.primary = "undefined"
        THEN SetPrimary(x1, id)
        ELSE x1

\* unregister(id) from this.dataSources.delete(id) on
UnregisterFinish(x, id) ==
    LET x1 == EmitDsm([x EXCEPT !.sources = SelectSeq(@, LAMBDA o : DataSourceId(o) # id)],
                      "datasource:unregistered", id)
        x2 == [x1 EXCEPT !.primary = "undefined"]
    IN  IF x1.error # "none" \/ x1.primary # id
        THEN x1
        ELSE IF x2.sources # <<>>
        THEN SetPrimary(x2, DataSourceId(x2.sources[1]))
        ELSE x2

\* connect(id, config): the catch block, entered with `error'
ConnectCatch(x, id, error) ==
    LET x1 == EmitDsm([x EXCEPT !.error = "none"], "datasource:connection-failed", id)
    IN  IF x1.error # "none" THEN x1 ELSE [x1 EXCEPT !.error = error]

\* connect(id, config) after `await dataSource.connect(config)' has resolved
ConnectTry(x, id) ==
    LET x1 == EmitDsm(x, "datasource:connected", id)
    IN  IF x1.error = "none" THEN x1 ELSE ConnectCatch(x1, id, x1.error)

\* disconnectAll() after `await Promise.allSettled(promises)'
DisconnectAllFinish(x) == EmitDsm(x, "datasource:all-disconnected", "none")

\* clear() from `await this.disconnectAll()' on
ClearFinish(x) ==
    LET x1 == DisconnectAllFinish(x)
    IN  IF x1.error # "none"
        THEN x1
        ELSE EmitDsm([x1 EXCEPT !.sources = <<>>, !.primary = "undefined"],
                     "datasource:cleared", "none")

\* a call of a method of the manager, as it is issued
NewDsmCall(op, id) ==
    [n |-> dsmCount + 1, op |-> op, id |-> id, obj |-> 0, configs |-> {}, targets |-> <<>>,
     invoked |-> {}, waits |-> {}, failed |-> {}, results |-> EmptyMap, events |-> <<>>]

\* the execution state a call goes on from
Exec(c) ==
    [sources |-> dataSources, primary |-> primaryDataSourceId, events |-> c.events,
     error |-> "none"]

\* register and setPrimary return or throw; the other methods are async
DsmOutcome(op, error) ==
    IF op \in {"register", "setPrimary"}
    THEN IF error = "none" THEN "returned" ELSE "threw"
    ELSE IF error = "none" THEN "resolved" ELSE "rejected"

DsmSettled(c, x) ==
    [n |-> c.n, op |-> c.op, id |-> c.id, obj |-> c.obj, configs |-> c.configs,
     targets |-> c.targets, invoked |-> c.invoked, waits |-> c.waits, failed |-> c.failed,
     results |-> c.results, events |-> x.events,
     outcome |-> DsmOutcome(c.op, x.error), error |-> x.error]

\* The call c has run on to the execution state x, the data sources `conn'
\* are connected, and the call has settled (done) or awaits.
DsmStep(c, x, conn, done) ==
    /\ dataSources' = x.sources
    /\ primaryDataSourceId' = x.primary
    /\ dsmConnected' = conn
    /\ dsmCalls' = {d \in dsmCalls : d.n # c.n}
                        \cup (IF done THEN {} ELSE {[c EXCEPT !.events = x.events]})
    /\ dsmLast' = IF done THEN DsmSettled(c, x) ELSE NoDsmResult
    /\ UNCHANGED dsmThrowing

\* a method is called: it runs up to its first await
DsmIssue(c, x, done) ==
    /\ dsmCount < MaxManagerOps
    /\ dsmCount' = dsmCount + 1
    /\ DsmStep(c, x, dsmConnected, done)

notDsmVars == <<kernelVars, containerVars, busVars, cfgVars, dsVars, qbVars>>

RegisterCall(obj) ==
    /\ LET c == [NewDsmCall("register", DataSourceId(obj)) EXCEPT !.obj = obj]
       IN  DsmIssue(c, Register(Exec(c), obj), TRUE)
    /\ UNCHANGED notDsmVars

SetPrimaryCall(id) ==
    /\ LET c == NewDsmCall("setPrimary", id)
       IN  DsmIssue(c, SetPrimary(Exec(c), id), TRUE)
    /\ UNCHANGED notDsmVars

\* unregister(id) up to `await dataSource.disconnect()'
UnregisterCall(id) ==
    /\ LET c == NewDsmCall("unregister", id)
           x == Exec(c)
       IN  IF ~DsmHas(dataSources, id)
           THEN DsmIssue(c, [x EXCEPT !.error = "NotFound"], TRUE)
           ELSE LET obj == DsmGet(dataSources, id)
                IN  IF obj \in dsmConnected
                    THEN DsmIssue([c EXCEPT !.obj = obj, !.invoked = {obj}, !.waits = {obj}],
                                  x, FALSE)
                    ELSE DsmIssue([c EXCEPT !.obj = obj], UnregisterFinish(x, id), TRUE)
    /\ UNCHANGED notDsmVars

\* connect(id, config) up to `await dataSource.connect(config)'
ConnectCall(id) ==
    /\ LET c == NewDsmCall("connect", id)
           x == Exec(c)
       IN  IF ~DsmHas(dataSources, id)
           THEN DsmIssue(c, [x EXCEPT !.error = "NotFound"], TRUE)
           ELSE LET obj == DsmGet(dataSources, id)
                IN  DsmIssue([c EXCEPT !.obj = obj, !.invoked = {obj}, !.waits = {obj}],
                             x, FALSE)
    /\ UNCHANGED notDsmVars

\* connectAll(configs) up to `await Promise.allSettled(promises)': every
\* connect of an id that has a config has run up to its own await
ConnectAllCall(configs) ==
    /\ LET objs == {obj \in DsmValues(dataSources) : DataSourceId(obj) \in configs}
           c == [NewDsmCall("connectAll", "none") EXCEPT
                    !.configs = configs, !.targets = dataSources,
                    !.invoked = objs, !.waits = objs]
       IN  DsmIssue(c, Exec(c), objs = {})
    /\ UNCHANGED notDsmVars

\* healthCheck() up to `await Promise.allSettled(promises)'
HealthCheckCall ==
    /\ LET objs == DsmValues(dataSources) \cap dsmConnected
           c == [NewDsmCall("healthCheck", "none") EXCEPT
                    !.targets = dataSources, !.invoked = objs, !.waits = objs,
                    !.results = [id \in {DataSourceId(obj) :
                                            obj \in DsmValues(dataSources) \ dsmConnected}
                                    |-> FALSE]]
       IN  DsmIssue(c, Exec(c), objs = {})
    /\ UNCHANGED notDsmVars

\* clear() up to the `await Promise.allSettled(promises)' of its disconnectAll()
ClearCall ==
    /\ LET objs == DsmValues(dataSources) \cap dsmConnected
           c == [NewDsmCall("clear", "none") EXCEPT
                    !.targets = dataSources, !.invoked = objs, !.waits = objs]
       IN  IF objs # {}
           THEN DsmIssue(c, Exec(c), FALSE)
           ELSE DsmIssue(c, ClearFinish(Exec(c)), TRUE)
    /\ UNCHANGED notDsmVars

\* The promise of dataSource.disconnect() that unregister awaits settles.
UnregisterGoesOn(c, ok) ==
    /\ c.op = "unregister"
    /\ IF ok
       THEN DsmStep(c, UnregisterFinish(Exec(c), c.id), dsmConnected \ {c.obj}, TRUE)
       ELSE DsmStep([c EXCEPT !.failed = {c.obj}], [Exec(c) EXCEPT !.error = "AdapterError"],
                    dsmConnected, TRUE)
    /\ UNCHANGED <<dsmCount, notDsmVars>>

\* The promise of dataSource.connect(config) that connect awaits settles.
ConnectGoesOn(c, ok) ==
    /\ c.op = "connect"
    /\ IF ok
       THEN DsmStep(c, ConnectTry(Exec(c), c.id), dsmConnected \cup {c.obj}, TRUE)
       ELSE DsmStep([c EXCEPT !.failed = {c.obj}],
                    ConnectCatch(Exec(c), c.id, "AdapterError"), dsmConnected, TRUE)
    /\ UNCHANGED <<dsmCount, notDsmVars>>

\* connectAll, were it to await Promise.all(promises): it rejects with the
\* first connect that rejects
ConnectAllFailsFast(c, obj, ok) ==
    /\ c.op = "connectAll"
    /\ obj \in c.waits
    /\ LET x == IF ok THEN ConnectTry(Exec(c), DataSourceId(obj))
                     ELSE ConnectCatch(Exec(c), DataSourceId(obj), "AdapterError")
           d == [c EXCEPT !.waits = @ \ {obj},
                          !.failed = IF ok THEN @ ELSE @ \cup {obj}]
       IN  DsmStep(d, x, IF ok THEN dsmConnected \cup {obj} ELSE dsmConnected,
                   d.waits = {} \/ x.error # "none")
    /\ UNCHANGED <<dsmCount, notDsmVars>>

\* One of the connects of connectAll goes on: its rejection is the
\* promise's, which allSettled takes; connectAll resolves with the last one.
ConnectAllGoesOn(c, obj, ok) ==
    /\ c.op = "connectAll"
    /\ obj \in c.waits
    /\ LET x == IF ok THEN ConnectTry(Exec(c), DataSourceId(obj))
                     ELSE ConnectCatch(Exec(c), DataSourceId(obj), "AdapterError")
           d == [c EXCEPT !.waits = @ \ {obj},
                          !.failed = IF ok THEN @ ELSE @ \cup {obj}]
       IN  DsmStep(d, [x EXCEPT !.error = "none"],
                   IF ok THEN dsmConnected \cup {obj} ELSE dsmConnected, d.waits = {})
    /\ UNCHANGED <<dsmCount, notDsmVars>>

\* healthCheck, were a ping that throws to leave no entry in the result
PingSettlesUncaught(c, obj, ping) ==
    /\ c.op = "healthCheck"
    /\ obj \in c.waits
    /\ LET d == [c EXCEPT !.waits = @ \ {obj},
                          !.failed = IF ping = "throws" THEN @ \cup {obj} ELSE @,
                          !.results = IF ping = "throws"
                                      THEN @
                                      ELSE MapSet(@, DataSourceId(obj), ping = "true")]
       IN  DsmStep(d, Exec(d), dsmConnected, d.waits = {})
    /\ UNCHANGED <<dsmCount, notDsmVars>>

\* One of the pings of healthCheck settles: it returns a boolean or throws.
PingSettles(c, obj, ping) ==
    /\ c.op = "healthCheck"
    /\ obj \in c.waits
    /\ LET d == [c EXCEPT !.waits = @ \ {obj},
                          !.failed = IF ping = "throws" THEN @ \cup {obj} ELSE @,
                          !.results = MapSet(@, DataSourceId(obj), ping = "true")]
       IN  DsmStep(d, Exec(d), dsmConnected, d.waits = {})
    /\ UNCHANGED <<dsmCount, notDsmVars>>

\* One of the disconnects of clear's disconnectAll settles; clear goes on
\* with the last one.
ClearGoesOn(c, obj, ok) ==
    /\ c.op = "clear"
    /\ obj \in c.waits
    /\ LET d == [c EXCEPT !.waits = @ \ {obj},
                          !.failed = IF ok THEN @ ELSE @ \cup {obj}]
           conn == IF ok THEN dsmConnected \ {obj} ELSE dsmConnected
       IN  IF d.waits # {}
           THEN DsmStep(d, Exec(d), conn, FALSE)
           ELSE DsmStep(d, ClearFinish(Exec(d)), conn, TRUE)
    /\ UNCHANGED <<dsmCount, notDsmVars>>

\* the sets of events with a throwing subscriber: none, or one event
ThrowingSets == {{}} \cup {{name} : name \in DsmEvents}

\* a new manager, on an EventBus with its subscribers, and the host's data
\* sources, of which it may have connected objects 1 and 2 itself
InitManager ==
    /\ dataSources = <<>>
    /\ primaryDataSourceId = "undefined"
    /\ dsmConnected \in SUBSET {1, 2}
    /\ dsmThrowing \in ThrowingSets
    /\ dsmCalls = {}
    /\ dsmCount = 0
    /\ dsmLast = NoDsmResult
    /\ NoDataSource
    /\ NoKernel
    /\ NoConfigManager
    /\ NewEventBus
    /\ NoQueryBuilder

NextManager ==
    \/ \E obj \in DataSourceObjs : RegisterCall(obj)
    \/ \E id \in DataSourceIds : SetPrimaryCall(id)
    \/ \E id \in DataSourceIds : UnregisterCall(id)
    \/ \E id \in DataSourceIds : ConnectCall(id)
    \/ \E configs \in SUBSET DataSourceIds : ConnectAllCall(configs)
    \/ HealthCheckCall
    \/ ClearCall
    \/ \E c \in dsmCalls, ok \in BOOLEAN : UnregisterGoesOn(c, ok)
    \/ \E c \in dsmCalls, ok \in BOOLEAN : ConnectGoesOn(c, ok)
    \/ \E c \in dsmCalls, obj \in DataSourceObjs, ok \in BOOLEAN : ConnectAllGoesOn(c, obj, ok)
    \/ \E c \in dsmCalls, obj \in DataSourceObjs, ping \in {"true", "false", "throws"} :
            PingSettles(c, obj, ping)
    \/ \E c \in dsmCalls, obj \in DataSourceObjs, ok \in BOOLEAN : ClearGoesOn(c, obj, ok)

SpecManager == InitManager /\ [][NextManager]_vars

-----------------------------------------------------------------------------
(* The QueryBuilder on its own: one builder, made by QueryBuilder.from, and *)
(* any sequence of calls of its methods.  A Query is an object: the builder *)
(* holds a reference to the one its constructor made, and qbHeap has the    *)
(* properties of every Query object.  The where and orderBy arrays are      *)
(* sequences; `arrays' names the ones that have been created.               *)

\* this.query: the object made by `private query: Partial<Query> = {}'
ThisQuery == 1

\* the object after the constructor has set its table
NewQuery(table) ==
    [table |-> table, operation |-> "undefined", fields |-> "undefined",
     data |-> "undefined", arrays |-> {}, where |-> <<>>, orderBy |-> <<>>,
     limit |-> "undefined", offset |-> "undefined"]

\* the arguments of the builder's methods
FieldLists == {"undefined", "[id]"}

WhereClause(field, operator, value) ==
    [field |-> field, operator |-> operator, value |-> value]

OrderClause(field, direction) == [field |-> field, direction |-> direction]

Directions == {"undefined", "asc", "desc"}

\* select(fields?)
Select(q, fields) == [q EXCEPT !.operation = "select", !.fields = fields]

\* insert(data)
Insert(q, data) == [q EXCEPT !.operation = "insert", !.data = data]

\* update(data)
Update(q, data) == [q EXCEPT !.operation = "update", !.data = data]

\* delete()
Delete(q) == [q EXCEPT !.operation = "delete"]

\* where(field, operator, value)
Where(q, field, operator, value) ==
    [q EXCEPT !.arrays = @ \cup {"where"},
              !.where = Append(IF "where" \in q.arrays THEN @ ELSE <<>>,
                               WhereClause(field, operator, value))]

WhereEq(q, field, value) == Where(q, field, "eq", value)

WhereIn(q, field, values) == Where(q, field, "in", values)

WhereLike(q, field, pattern) == Where(q, field, "like", pattern)

\* orderBy(field, direction = 'asc')
OrderBy(q, field, direction) ==
    [q EXCEPT !.arrays = @ \cup {"orderBy"},
              !.orderBy = Append(IF "orderBy" \in q.arrays THEN @ ELSE <<>>,
                                 OrderClause(field, IF direction = "undefined"
                                                    THEN "asc" ELSE direction))]

\* limit(limit)
Limit(q, limit) == [q EXCEPT !.limit = limit]

\* offset(offset)
Offset(q, offset) == [q EXCEPT !.offset = offset]

\* build(): throws, or returns the reference this.query
Build(q) ==
    IF q.operation = "undefined"
    THEN [outcome |-> "threw", value |-> 0]
    ELSE [outcome |-> "returned", value |-> ThisQuery]

notQbVars == <<kernelVars, containerVars, busVars, cfgVars, dsVars, dsmVars>>

\* the clauses a call of `op' that leaves the Query q has pushed
Pushed(op, q) ==
    [where |-> IF op \in {"where", "whereEq", "whereIn", "whereLike"}
               THEN <<q.where[Len(q.where)]>> ELSE <<>>,
     orderBy |-> IF op = "orderBy" THEN <<q.orderBy[Len(q.orderBy)]>> ELSE <<>>]

\* a chainable method is called: it changes this.query and returns this
BuilderCall(op, q) ==
    /\ qbLast.n < MaxBuilderOps
    /\ qbHeap' = [qbHeap EXCEPT ![ThisQuery] = q]
    /\ qbLast' = [n |-> qbLast.n + 1, op |-> op, where |-> Pushed(op, q).where,
                  orderBy |-> Pushed(op, q).orderBy, outcome |-> "returned", value |-> 0]
    /\ UNCHANGED <<qbReturned, notQbVars>>

BuildCall ==
    /\ qbLast.n < MaxBuilderOps
    /\ LET r == Build(qbHeap[ThisQuery])
       IN  /\ qbLast' = [n |-> qbLast.n + 1, op |-> "build", where |-> <<>>,
                         orderBy |-> <<>>, outcome |-> r.outcome, value |-> r.value]
           /\ qbReturned' = IF r.outcome = "returned"
                            THEN Append(qbReturned, [ref |-> r.value, query |-> qbHeap[r.value]])
                            ELSE qbReturned
    /\ UNCHANGED <<qbHeap, notQbVars>>

\* QueryBuilder.from(table)
InitQueryBuilder ==
    /\ qbHeap \in {[ref \in {ThisQuery} |-> NewQuery(table)] :
                        table \in {<<"T">>, <<"t", "_", "1">>}}
    /\ qbLast = NoBuilderCall
    /\ qbReturned = <<>>
    /\ NoDataSource
    /\ NoManager
    /\ NoKernel
    /\ NoConfigManager
    /\ NewEventBus

NextQueryBuilder ==
    \/ \E fields \in FieldLists : BuilderCall("select", Select(qbHeap[ThisQuery], fields))
    \/ BuilderCall("insert", Insert(qbHeap[ThisQuery], "d1"))
    \/ BuilderCall("update", Update(qbHeap[ThisQuery], "d1"))
    \/ BuilderCall("delete", Delete(qbHeap[ThisQuery]))
    \/ BuilderCall("where", Where(qbHeap[ThisQuery], "f1", "gt", "v1"))
    \/ BuilderCall("whereEq", WhereEq(qbHeap[ThisQuery], "f1", "v1"))
    \/ BuilderCall("whereIn", WhereIn(qbHeap[ThisQuery], "f1", "v1"))
    \/ BuilderCall("whereLike", WhereLike(qbHeap[ThisQuery], "f1", "v1"))
    \/ \E direction \in Directions :
            BuilderCall("orderBy", OrderBy(qbHeap[ThisQuery], "f1", direction))
    \/ BuilderCall("limit", Limit(qbHeap[ThisQuery], "10"))
    \/ BuilderCall("offset", Offset(qbHeap[ThisQuery], "20"))
    \/ BuildCall

SpecQueryBuilder == InitQueryBuilder /\ [][NextQueryBuilder]_vars

-----------------------------------------------------------------------------
(* Properties of the kernel, checked under SpecKernel *)

\* the events emitted by the step
NewEvents == SubSeq(emitted', Len(emitted) + 1, Len(emitted'))

\* the step issues a kernel call `op'
Issues(op) == invoc' # invoc /\ invoc'.op = op

\* the step settles a kernel call `op' with `outcome'
Settles(op, outcome) == last' # last /\ last'.op = op /\ last'.outcome = outcome

IdTaken(p) == \E i \in 1 .. Len(plugins) : PluginId(plugins[i]) = PluginId(p)

WithHook(reg, hook) == SelectSeq(reg, LAMBDA p : hook \in PluginHooks(p))

Count(seq, e) == Cardinality({i \in 1 .. Len(seq) : seq[i] = e})

\* C1: registerPlugin(p) with an id that is already registered fails in the
\* step that issues it, and that step leaves the registry as it was (the id
\* still maps to the first plugin), invokes no hook and emits no event.
C1_DuplicateRegisterChangesNothing ==
    [][\A p \in PluginObjs :
         (Issues("registerPlugin") /\ invoc'.arg = p /\ IdTaken(p))
         => /\ last'.call = invoc'.call
            /\ last'.outcome = "rejected"
            /\ plugins' = plugins
            /\ hooksInvoked' = hooksInvoked
            /\ emitted' = emitted]_vars

\* a second plugin object with the id of the registered plugin 1 was rejected
C1_Witness ==
    /\ last.op = "registerPlugin" /\ last.arg = 3 /\ last.outcome = "rejected"
    /\ last.error = "already registered"
    /\ plugins = <<1>>
    /\ hooksInvoked[<<3, "onLoad">>] = 0

\* C2: a registerPlugin call that fails, for whatever reason, has added
\* nothing to the registry: its plugin occupies no registry position that
\* did not exist when the call was issued.
C2_FailedRegisterAddsNothing ==
    [][Settles("registerPlugin", "rejected")
         => \A i \in 1 .. Len(plugins') : plugins'[i] = last'.arg => i <= last'.before]_vars

\* C3: in every bootstrap or destroy call the hooks invoked so far are those
\* of the plugins the iteration has passed, in registration order, and at
\* most one of them, the one invoked last, has not completed; a completed
\* call invoked the hooks in registration order.
C3_HooksSequentialInOrder ==
    /\ \A c \in calls :
         c.op \in {"bootstrap", "destroy"}
         => /\ c.log = WithHook(SubSeq(plugins, 1, c.cursor), HookOf(c.op))
            /\ Cardinality({h \in pending : h.call = c.call}) <= 1
            /\ \A h \in pending :
                 h.call = c.call => Len(c.log) > 0 /\ h.plugin = c.log[Len(c.log)]
    /\ (last.op \in {"bootstrap", "destroy"} /\ last.outcome = "resolved")
         => /\ \E n \in 0 .. Len(plugins) :
                 last.log = WithHook(SubSeq(plugins, 1, n), HookOf(last.op))
            /\ \A h \in pending : h.call # last.call

\* a bootstrap has invoked the onInit hook of a second plugin, and a
\* destroy has completed after two onDestroy hooks
C3_Witness ==
    /\ \E c \in calls : c.op = "bootstrap" /\ Len(c.log) = 2
    /\ last.op = "destroy" /\ last.outcome = "resolved" /\ Len(last.log) = 2

\* C4: bootstrap() issued while the kernel is bootstrapped fails in the
\* step that issues it; the step invokes no hook, emits no event and leaves
\* the kernel bootstrapped.
C4_SecondBootstrapFails ==
    [][(Issues("bootstrap") /\ initialized)
         => /\ last'.call = invoc'.call
            /\ last'.outcome = "rejected"
            /\ hooksInvoked' = hooksInvoked
            /\ emitted' = emitted
            /\ initialized']_vars

C4_Witness ==
    /\ last.op = "bootstrap" /\ last.outcome = "rejected"
    /\ last.error = "already initialized"
    /\ initialized
    /\ \E i \in 1 .. Len(plugins) : "onInit" \in PluginHooks(plugins[i])

\* C5: the step in which a bootstrap() call returns emits kernel:ready
\* exactly once, with the kernel bootstrapped and the onInit hook of every
\* registered plugin invoked by the call and completed; no other step emits
\* kernel:ready.
C5_ReadyOnceAfterInit ==
    [][/\ Settles("bootstrap", "resolved")
            => /\ Count(NewEvents, Event("kernel:ready", 0)) = 1
               /\ initialized'
               /\ \A i \in 1 .. Len(plugins') :
                    "onInit" \in PluginHooks(plugins'[i])
                    => plugins'[i] \in Range(last'.log)
               /\ \A h \in pending' : h.call # last'.call
       /\ Count(NewEvents, Event("kernel:ready", 0)) > 0
            => Settles("bootstrap", "resolved")]_vars

C5_Witness ==
    /\ last.op = "bootstrap" /\ last.outcome = "resolved" /\ Len(last.log) = 2
    /\ Count(emitted, Event("kernel:ready", 0)) = 1
    /\ initialized

\* C6: plugin:registered is emitted for a plugin only in the step in which
\* its registerPlugin call returns, with the plugin stored and, when it has
\* an onLoad hook, that hook invoked in an earlier step and completed in this
\* one; that step emits it exactly once, and no plugin gets it twice.
C6_RegisteredAfterOnLoad ==
    /\ [](\A p \in PluginObjs :
            /\ Count(emitted, Event("plugin:registered", p)) <= 1
            /\ Count(emitted, Event("plugin:registered", p)) = 1 => p \in Range(plugins))
    /\ [][/\ \A p \in PluginObjs :
               Count(NewEvents, Event("plugin:registered", p)) > 0
               => /\ Settles("registerPlugin", "resolved")
                  /\ last'.arg = p
                  /\ p \in Range(plugins')
                  /\ "onLoad" \in PluginHooks(p)
                       => /\ p \in Range(plugins)
                          /\ hooksInvoked[<<p, "onLoad">>] = 1
                          /\ hooksInvoked'[<<p, "onLoad">>] = 1
                          /\ [call |-> last'.call, plugin |-> p, hook |-> "onLoad"]
                                \in pending \ pending'
          /\ Settles("registerPlugin", "resolved")
               => NewEvents = <<Event("plugin:registered", last'.arg)>>]_vars

\* a plugin with an onLoad hook and one without are both registered
C6_Witness ==
    /\ plugins = <<1, 2>>
    /\ emitted = <<Event("plugin:registered", 1), Event("plugin:registered", 2)>>
    /\ hooksInvoked[<<1, "onLoad">>] = 1
    /\ pending = {}

\* C7: resolve('nexus:config') returns the kernel's own ConfigManager, and
\* every descriptor id registered through it by the onLoad hook of a
\* registerPlugin call that has returned is in
\* getConfiguration().plugins.registry.dataSources, before and after bootstrap.
C7_ConfigManagerShared ==
    /\ Resolve("nexus:config").outcome = "returned"
    /\ Resolve("nexus:config").value = configManager
    /\ \A d \in returnedDescs : MapHas(GetConfiguration.plugins.registry.dataSources, d)

C7_Witness ==
    /\ "main" \in returnedDescs
    /\ initialized
    /\ last.op = "bootstrap" /\ last.outcome = "resolved"
    /\ MapHas(GetConfiguration.plugins.registry.dataSources, "main")

C9_SecondDestroyFails ==
    [][(Issues("destroy") /\ destroyed)
         => /\ last'.call = invoc'.call
            /\ last'.outcome = "rejected"
            /\ hooksInvoked' = hooksInvoked
            /\ emitted' = emitted]_vars

-----------------------------------------------------------------------------
(* Properties of the container, checked under SpecContainer *)

C11_ResolveUnboundFails ==
    [][\A t \in Tokens :
        (containerOp'.n # containerOp.n /\ containerOp'.op = "resolve"
         /\ containerOp'.token = t /\ ~MapHas(instances, t) /\ ~MapHas(services, t))
        => /\ containerOp'.outcome = "threw"
           /\ containerOp'.error = <<"Service not found in container", t>>
           /\ instances' = instances
           /\ services' = services
           /\ ~(t \in DOMAIN instances' \/ t \in DOMAIN services')]_vars

\* resolve("t2") has thrown although the container binds another token
C11_Witness ==
    /\ containerOp.op = "resolve" /\ containerOp.token = "t2"
    /\ containerOp.outcome = "threw" /\ containerOp.error = NotFound("t2")
    /\ Has("t1") /\ ~Has("t2")

-----------------------------------------------------------------------------
(* Properties of the EventBus, checked under SpecEventBus *)

\* the handlers emit number k has invoked so far, in order
InvokedBy(k) ==
    LET sel == SelectSeq(busLog, LAMBDA e : e.id = k)
    IN  [i \in 1 .. Len(sel) |-> sel[i].fn]

\* the step is a call of the bus method `op'
BusCalls(op) == busLast'.n # busLast.n /\ busLast'.op = op

\* C12: a handler registered with once(name, h) is invoked exactly once over
\* the emits of name the host issues one after another: no two of these emits
\* invoke it, and an emit that returns has invoked every once handler that
\* was subscribed when it was called.
C12_OnceInvokedOnce ==
    /\ \A i, j \in 1 .. Len(busLog) :
        (busLog[i].fn.once > 0 /\ busLog[i].fn = busLog[j].fn)
        => busLog[i].root = busLog[j].root
    /\ \A k \in 1 .. Len(emitLog) :
        emitLog[k].outcome = "returned"
        => \A x \in 1 .. Len(emitLog[k].snap) :
            emitLog[k].snap[x].once > 0 => SetHas(InvokedBy(k), emitLog[k].snap[x])

\* C13: the handler of once(name, h) is unsubscribed before h runs, so an
\* emit of name that h itself makes does not invoke h again: no once handler
\* is invoked while an invocation of it is still running.
C13_OnceNotReentered ==
    \A i, j \in 1 .. Len(stack) :
        (i # j /\ stack[i].kind = "handler" /\ stack[j].kind = "handler"
         /\ stack[i].fn.once > 0)
        => stack[i].fn # stack[j].fn

\* C14: emit works on a snapshot of the handler set: a handler subscribed
\* during the emit is not invoked by it, and a handler unsubscribed during the
\* emit is still invoked by it.  So an emit invokes only handlers that were
\* subscribed when it was called, and one that returns has invoked them all.
C14_EmitSnapshot ==
    /\ \A i \in 1 .. Len(busLog) : SetHas(emitLog[busLog[i].id].snap, busLog[i].fn)
    /\ \A k \in 1 .. Len(emitLog) :
        emitLog[k].outcome = "returned"
        => \A x \in 1 .. Len(emitLog[k].snap) : SetHas(InvokedBy(k), emitLog[k].snap[x])

\* C15: emit(name, payload) invokes every handler subscribed to name exactly
\* once, in subscription order, with the payload, and no handler of another
\* event: the invocations of an emit that has returned are the handlers that
\* were subscribed to name when it was called, in their order, and every
\* invocation carries the event and payload of its emit.
C15_EmitInvokesSubscribedInOrder ==
    /\ \A k \in 1 .. Len(emitLog) :
        emitLog[k].outcome = "returned" => InvokedBy(k) = emitLog[k].snap
    /\ \A i \in 1 .. Len(busLog) :
        /\ busLog[i].data = emitLog[busLog[i].id].data
        /\ busLog[i].event = emitLog[busLog[i].id].event

\* C16: the closure returned by on(name, h) removes h from name and nothing
\* else: the other handlers of name keep their order and the handlers of the
\* other events stay.  off(name) without a handler removes every handler of
\* name and no handler of another event.
C16_UnsubscribeRemovesOnlyTarget ==
    [][\A name \in EventNames :
        (BusCalls("off") /\ busLast'.event = name)
        => /\ \A m \in EventNames \ {name} :
                Subscribed(events', m) = Subscribed(events, m)
           /\ busLast'.fn = Undefined => Subscribed(events', name) = <<>>
           /\ busLast'.fn # Undefined =>
                Subscribed(events', name) =
                    SelectSeq(Subscribed(events, name), LAMBDA x : x # busLast'.fn)]_vars

\* the closure of on("e1", h1) has been called while h2 was subscribed to e1
\* too and h1 to e2: h2 is left on e1, and h1 on e2
C16_Witness ==
    /\ busLast.op = "off" /\ busLast.event = "e1" /\ busLast.fn = Plain("h1")
    /\ <<"e1", "h1">> \in closures
    /\ Subscribed(events, "e1") = <<Plain("h2")>>
    /\ Subscribed(events, "e2") = <<Plain("h1")>>

-----------------------------------------------------------------------------
(* Properties of the ConfigManager, checked under SpecConfig *)

\* the section of the partial config the ConfigManager was constructed with
\* (no keys when the partial config does not have it)
GivenSection(path) ==
    LET F[i \in 0 .. Len(path)] ==
            IF i = 0 THEN initialConfig
            ELSE IF path[i] \in DOMAIN F[i - 1] THEN F[i - 1][path[i]] ELSE EmptyMap
    IN  IF initialConfig = UndefinedConfig THEN EmptyMap ELSE F[Len(path)]

\* the same section of a config
SectionOf(cfg, path) ==
    LET F[i \in 0 .. Len(path)] == IF i = 0 THEN cfg ELSE F[i - 1][path[i]]
    IN  F[Len(path)]

MergedSections == {<<"app">>, <<"plugins", "registry">>, <<"security">>, <<"ui">>}

\* C17: a ConfigManager constructed with a partial config has, in each of
\* app, plugins.registry, security and ui, the keys of the default section
\* and the keys of the partial's section; a key of both has the partial's
\* value, every other key the value of the section it comes from.
C17_MergeKeepsDefaults ==
    regLog = <<>> =>
        \A path \in MergedSections :
            LET merged == SectionOf(GetConfig(configManager), path)
                default == SectionOf(CreateDefaultConfig, path)
                given == GivenSection(path)
            IN  /\ DOMAIN merged = (DOMAIN default) \cup (DOMAIN given)
                /\ \A k \in DOMAIN given : merged[k] = given[k]
                /\ \A k \in (DOMAIN default) \ (DOMAIN given) : merged[k] = default[k]

\* new ConfigManager({app: {debug: true}}): the default app.name is kept,
\* app.debug is overridden
C17_Witness ==
    /\ regLog = <<>>
    /\ initialConfig = [app |-> [debug |-> TRUE]]
    /\ GetConfig(configManager).app.name = "Nexus Admin"
    /\ GetConfig(configManager).app.debug = TRUE
    /\ CreateDefaultConfig.app.debug = FALSE

\* the registry `name' of the ConfigManager
Registry(name) == GetConfig(configManager).plugins.registry[name]

\* the registry `name' the ConfigManager was constructed with
GivenRegistry(name) == ConfigManagerConstructor(initialConfig).plugins.registry[name]

\* the positions of regLog that registered a descriptor with `id' into `name'
Registrations(name, id) ==
    {i \in 1 .. Len(regLog) : regLog[i].registry = name /\ regLog[i].config.id = id}

\* the descriptor of the last of these registrations
LastRegistered(name, id) ==
    regLog[CHOOSE i \in Registrations(name, id) :
                \A j \in Registrations(name, id) : j <= i].config

\* C18: after any sequence of registerDataSource and registerAuthProvider
\* calls, each registry holds one entry per descriptor id registered into it,
\* the descriptor registered last with that id (and the entries it was
\* constructed with, where no call has replaced them); a registration into
\* one registry does not change the other.
C18_RegistryLastWins ==
    /\ [](\A name \in {"dataSources", "authProviders"} :
            /\ DOMAIN Registry(name) =
                (DOMAIN GivenRegistry(name)) \cup
                {id \in {d.id : d \in Descriptors} : Registrations(name, id) # {}}
            /\ \A id \in DOMAIN Registry(name) :
                Registry(name)[id] = IF Registrations(name, id) # {}
                                     THEN LastRegistered(name, id)
                                     ELSE GivenRegistry(name)[id])
    /\ [][\A name, other \in {"dataSources", "authProviders"} :
            (Len(regLog') > Len(regLog) /\ regLog'[Len(regLog')].registry = name
             /\ other # name)
            => Registry(other)' = Registry(other)]_vars

\* "main" was registered as a data source twice, with different descriptors,
\* and once as an auth provider: each registry holds its own last descriptor
C18_Witness ==
    /\ Len(regLog) = 3
    /\ Cardinality(Registrations("dataSources", "main")) = 2
    /\ regLog[1].config # regLog[3].config
    /\ regLog[2].registry = "authProviders" /\ regLog[2].config.id = "main"
    /\ Registry("dataSources")["main"] = regLog[3].config
    /\ Registry("authProviders")["main"] = regLog[2].config

-----------------------------------------------------------------------------
(* Properties of the BaseDataSource, checked under SpecDataSource *)

\* C19: a CRUD method (findOne, findMany, create, update, delete, count,
\* exists, bulkInsert, bulkUpdate, bulkDelete) called while the data source
\* is not connected fails with a ConnectionError, whatever its arguments and
\* the capabilities, and query is not invoked: such a call is never left
\* awaiting a query, and it has settled with ConnectionError and no query.
C19_NotConnectedFails ==
    /\ dsCall # NoDsCall => dsCall.connected
    /\ (dsLast # NoDsResult /\ ~dsLast.connected)
       => dsLast.outcome = "ConnectionError" /\ dsLast.queries = <<>>

\* C20: a CRUD helper (findOne, findMany, create, update, delete, count) of a
\* connected data source, called with a table name that does not match the
\* identifier pattern or with arguments whose Query lacks a field its
\* operation requires, fails with a validation error before query is invoked.
C20_InvalidCallFailsBeforeQuery ==
    \A c \in {dsCall, dsLast} :
        (/\ c.op \in {"findOne", "findMany", "create", "update", "delete", "count"}
         /\ c.connected
         /\ ValidateQuery(QueryOf(c.op, c.table, c.where, c.data)) # "ok")
        => /\ c.queries = <<>>
           /\ c = dsLast
           /\ dsLast.outcome \in {"QueryError", "SchemaError"}

-----------------------------------------------------------------------------
(* Properties of validateQuery, checked under SpecValidateQuery *)

\* the string matches ^[A-Za-z][A-Za-z0-9_]*$
IsIdentifier(str) ==
    /\ Len(str) >= 1
    /\ str[1] \in Letters
    /\ \A i \in 2 .. Len(str) : str[i] \in Letters \cup Digits \cup {"_"}

\* C21: validateQuery accepts a Query exactly when its table name matches
\* ^[A-Za-z][A-Za-z0-9_]*$, its operation is select, insert, update or
\* delete, an insert has data, an update has data and a where list (an empty
\* list suffices) and a delete has a where list; it rejects every other
\* Query with an error.
C21_ValidateQueryAccepts ==
    validation.result # "none" =>
        LET query == validation.query
        IN  /\ validation.result \in {"ok", "QueryError", "SchemaError"}
            /\ validation.result = "ok" <=>
                  /\ IsIdentifier(query.table)
                  /\ query.operation \in {"select", "insert", "update", "delete"}
                  /\ query.operation = "insert" => query.data # "undefined"
                  /\ query.operation = "update" =>
                        query.data # "undefined" /\ query.where # "undefined"
                  /\ query.operation = "delete" => query.where # "undefined"

\* an update with data and an empty where list has been accepted
C21_Witness ==
    /\ validation.result = "ok"
    /\ validation.query.operation = "update"
    /\ validation.query.where = "[]"
    /\ validation.query.data = "d1"
    /\ validation.query.table = <<"t", "_", "1">>

-----------------------------------------------------------------------------
(* Properties of the bulk methods, checked under SpecDataSource *)

\* a call of a bulk method on a data source that was connected and has no
\* bulk support
IsFallback(c) == c.op \in BulkOps /\ c.connected /\ ~dsBulk

\* the calls of bulk methods: idx operations were issued, for the elements
\* 1 .. idx in this order, and no other
C22_InOrder ==
    \A c \in {dsCall, dsLast} :
        IsFallback(c) =>
            /\ c.idx <= Len(c.items)
            /\ Len(c.queries) <= c.idx
            /\ \A k \in 1 .. Len(c.queries) : c.queries[k] = ItemQuery(c, k)
            /\ c = dsCall => c.idx >= 1 /\ Len(c.queries) = c.idx
            /\ (c = dsLast /\ dsLast.outcome = "returned") =>
                    c.idx = Len(c.items) /\ Len(c.queries) = Len(c.items)
            /\ (c = dsLast /\ dsLast.outcome # "returned") =>
                    /\ c.idx >= 1
                    /\ dsLast.outcome \in {"AdapterError", "QueryError", "ConnectionError"}

\* the steps of a bulk call: it starts with the operation of the first
\* element alone; the operation of the next element is issued in the step
\* in which the awaited one completes; when the awaited one fails the call
\* fails with its error in that step, and no further operation is issued
C22_OneAtATime ==
    /\ (dsCall = NoDsCall /\ IsFallback(dsCall')) => dsCall'.idx = 1
    /\ (IsFallback(dsCall) /\ dsCall' # dsCall) =>
            IF dsCall' # NoDsCall
            THEN /\ dsCall'.idx = dsCall.idx + 1
                 /\ dsCall'.queries = Append(dsCall.queries, ItemQuery(dsCall, dsCall.idx + 1))
                 /\ \E rows \in 0 .. 1 : QueryResolves(rows)
            ELSE /\ dsLast'.items = dsCall.items
                 /\ dsLast'.queries = dsCall.queries
                 /\ dsLast'.idx \in {dsCall.idx, dsCall.idx + 1}
                 /\ dsLast'.idx = dsCall.idx + 1 => dsLast'.outcome = "ConnectionError"
    /\ (IsFallback(dsCall) /\ QueryRejects) =>
            /\ dsLast'.outcome = "AdapterError"
            /\ dsLast'.idx = dsCall.idx
            /\ dsLast'.queries = dsCall.queries

\* C22: on a connected data source without bulk support, bulkInsert,
\* bulkUpdate and bulkDelete issue one single-row operation per element, in
\* the order of the input, each started only after the one before has
\* completed; when the operation of element k fails, no operation is issued
\* for an element after k and the bulk call fails with that error.
C22_BulkFallbackSequential == []C22_InOrder /\ [][C22_OneAtATime]_vars

\* a bulkUpdate of two elements has failed with the adapter's error of its
\* first element, the second never issued
C22_Witness ==
    /\ IsFallback(dsLast)
    /\ dsLast.op = "bulkUpdate"
    /\ Len(dsLast.items) = 2
    /\ dsLast.outcome = "AdapterError"
    /\ dsLast.idx = 1
    /\ Len(dsLast.queries) = 1

-----------------------------------------------------------------------------
(* Properties of the DataSourceManager, checked under SpecManager *)

\* C23: register(ds) with an id that is already registered fails and mutates
\* nothing: the registry still holds the first data source under that id,
\* the primary is unchanged, and neither datasource:registered nor
\* datasource:primary-changed is emitted.
C23_DuplicateRegisterFails ==
    [][(dsmLast'.op = "register" /\ DsmHas(dataSources, dsmLast'.id)) =>
            /\ dsmLast'.outcome = "threw"
            /\ dsmLast'.error = "AlreadyRegistered"
            /\ dataSources' = dataSources
            /\ primaryDataSourceId' = primaryDataSourceId
            /\ dsmLast'.events = <<>>]_vars

\* object 3 was registered after object 1, of the same id: the call threw
\* and object 1 is the one registered
C23_Witness ==
    /\ dsmLast.op = "register"
    /\ dsmLast.obj = 3
    /\ dsmLast.outcome = "threw"
    /\ DsmHas(dataSources, "a")
    /\ DsmGet(dataSources, "a") = 1

\* the ids in the registry
RegisteredIds(sources) == {DataSourceId(obj) : obj \in DsmValues(sources)}

\* C24: the first data source registered into an empty manager becomes
\* primary, and a later registration does not change the primary;
\* unregistering the primary makes one of the remaining data sources
\* primary, or leaves no primary when none remains; unregistering another
\* data source leaves the primary unchanged.
C24_PrimaryFollowsRegistry ==
    [][/\ \A id \in RegisteredIds(dataSources') \ RegisteredIds(dataSources) :
              IF dataSources = <<>>
              THEN primaryDataSourceId' = id
              ELSE primaryDataSourceId' = primaryDataSourceId
       /\ \A id \in RegisteredIds(dataSources) \ RegisteredIds(dataSources') :
              dsmLast'.op = "unregister" =>
                  IF primaryDataSourceId # id
                  THEN primaryDataSourceId' = primaryDataSourceId
                  ELSE IF dataSources' = <<>>
                  THEN primaryDataSourceId' = "undefined"
                  ELSE primaryDataSourceId' \in RegisteredIds(dataSources')]_vars

\* C25: connect(id, config) on a registered id: when the data source's
\* connect rejects, datasource:connection-failed has been emitted for the id
\* when the call rejects, and it rejects with the same error; when it
\* resolves, datasource:connected is emitted exactly once for the id and the
\* call resolves.
C25_ConnectEmitsAndSettles ==
    (dsmLast.op = "connect" /\ dsmLast.obj # 0) =>
        IF dsmLast.obj \in dsmLast.failed
        THEN /\ dsmLast.events = <<DsmEvent("datasource:connection-failed", dsmLast.id)>>
             /\ dsmLast.outcome = "rejected"
             /\ dsmLast.error = "AdapterError"
        ELSE /\ dsmLast.events = <<DsmEvent("datasource:connected", dsmLast.id)>>
             /\ dsmLast.outcome = "resolved"

\* the call issued by this step
IssuedCall ==
    IF dsmLast'.n = dsmCount' THEN dsmLast' ELSE CHOOSE c \in dsmCalls' : c.n = dsmCount'

\* the events of a call that connect emits for the id
ConnectEvents(c, id) ==
    SelectSeq(c.events, LAMBDA e : e.id = id /\ e.name \in {"datasource:connected",
                                                            "datasource:connection-failed"})

\* a connectAll call invokes connect on the registered data sources that
\* have a config, and on these alone
C26_AttemptsConfigured ==
    (dsmCount' = dsmCount + 1 /\ IssuedCall.op = "connectAll") =>
        /\ IssuedCall.invoked =
              {obj \in DsmValues(dataSources) : DataSourceId(obj) \in IssuedCall.configs}
        /\ IssuedCall.waits = IssuedCall.invoked

\* a connectAll call in flight stays in flight, whatever its connects do,
\* until the last of them has completed; no connect is invoked anew
C26_GoesOn ==
    \A c \in dsmCalls :
        c.op = "connectAll" =>
            \/ \E d \in dsmCalls' :
                  d.n = c.n /\ d.invoked = c.invoked /\ d.waits # {} /\ d.waits \subseteq c.waits
            \/ dsmLast'.n = c.n /\ dsmLast'.invoked = c.invoked

\* a connectAll call that has settled has resolved, and each connect it
\* invoked has completed: it resolved or rejected, and has emitted its event
C26_AllSettled ==
    dsmLast.op = "connectAll" =>
        /\ dsmLast.outcome = "resolved"
        /\ dsmLast.waits = {}
        /\ dsmLast.failed \subseteq dsmLast.invoked
        /\ \A obj \in dsmLast.invoked : ConnectEvents(dsmLast, DataSourceId(obj)) # <<>>
        /\ \A id \in DataSourceIds \ {DataSourceId(obj) : obj \in dsmLast.invoked} :
              ConnectEvents(dsmLast, id) = <<>>

C27_PingsConnected ==
    (dsmCount' = dsmCount + 1 /\ IssuedCall.op = "healthCheck") =>
        /\ IssuedCall.targets = dataSources
        /\ IssuedCall.invoked = DsmValues(dataSources) \cap dsmConnected

\* the entry of a data source in the result is what its ping returned, or
\* false when the ping threw
C27_RecordsPing ==
    \A c \in dsmCalls, obj \in DataSourceObjs, ping \in {"true", "false", "throws"} :
        (PingSettles(c, obj, ping) /\ dsmLast'.n = c.n) =>
            /\ dsmLast'.results[DataSourceId(obj)] = (ping = "true")
            /\ \A id \in DOMAIN c.results : dsmLast'.results[id] = c.results[id]

\* a healthCheck call that has settled has resolved with a boolean for
\* every data source that was registered at the call: false for one that
\* was not connected or whose ping threw
C27_ResultForEach ==
    dsmLast.op = "healthCheck" =>
        /\ dsmLast.outcome = "resolved"
        /\ DOMAIN dsmLast.results = RegisteredIds(dsmLast.targets)
        /\ \A obj \in DsmValues(dsmLast.targets) :
              /\ dsmLast.results[DataSourceId(obj)] \in BOOLEAN
              /\ obj \notin dsmLast.invoked => ~dsmLast.results[DataSourceId(obj)]
              /\ obj \in dsmLast.failed => ~dsmLast.results[DataSourceId(obj)]

\* C27: healthCheck() never rejects and returns a boolean for every data
\* source registered when it was called: true only if the data source
\* reported connected and its ping returned true, false if it is not
\* connected (ping is then not invoked) or if its ping threw.
C27_HealthCheckNeverRejects ==
    []C27_ResultForEach /\ [][C27_PingsConnected /\ C27_RecordsPing]_vars

\* a healthCheck of two data sources has resolved: one was not connected,
\* the ping of the other threw
C27_Witness ==
    /\ dsmLast.op = "healthCheck"
    /\ dsmLast.outcome = "resolved"
    /\ Len(dsmLast.targets) = 2
    /\ Cardinality(dsmLast.invoked) = 1
    /\ dsmLast.failed = dsmLast.invoked
    /\ DOMAIN dsmLast.results = {"a", "b"}

\* C28: clear() invokes disconnect on every registered data source that is
\* connected and, once all these disconnects have settled, leaves the
\* manager with an empty registry and no primary, having emitted
\* datasource:all-disconnected and then datasource:cleared; clear() does not
\* reject because a disconnect failed.
C28_ClearEmptiesRegistry ==
    (dsmLast.op = "clear" /\ dsmLast.targets # <<>>) =>
        /\ dsmLast.waits = {}
        /\ dsmLast.failed \subseteq dsmLast.invoked
        /\ dsmLast.invoked \subseteq DsmValues(dsmLast.targets)
        /\ dsmLast.outcome = "resolved"
        /\ dataSources = <<>>
        /\ primaryDataSourceId = "undefined"
        /\ dsmLast.events = <<DsmEvent("datasource:all-disconnected", "none"),
                              DsmEvent("datasource:cleared", "none")>>

-----------------------------------------------------------------------------
(* Properties of the hooks of a plugin, checked under SpecKernel *)

\* the step invokes the hook of the plugin
Invokes(p, hook) == hooksInvoked'[<<p, hook>>] > hooksInvoked[<<p, hook>>]

\* C29: under any interleaving of registerPlugin and bootstrap calls, also a
\* bootstrap called while registerPlugin is awaiting onLoad, the onInit hook
\* of a plugin is not invoked before its onLoad hook has run to completion:
\* no step invokes onInit of a plugin whose onLoad is pending.
C29_OnInitAfterOnLoad ==
    [][\A p \in PluginObjs :
            Invokes(p, "onInit") =>
                ~\E h \in pending : h.plugin = p /\ h.hook = "onLoad"]_vars

\* C30: the onDestroy hook of a plugin is invoked only when the plugin is
\* initialized, that is when its onInit was invoked by a bootstrap that no
\* destroy has followed; a destroy() on a kernel that was never bootstrapped
\* invokes no onDestroy.  So onDestroy is invoked only for a plugin whose
\* onInit has been invoked more often than its onDestroy.
C30_OnDestroyOnlyInitialized ==
    [][\A p \in PluginObjs :
            Invokes(p, "onDestroy") =>
                hooksInvoked[<<p, "onInit">>] > hooksInvoked[<<p, "onDestroy">>]]_vars

\* C31: whenever the kernel is bootstrapped, every plugin of the registry
\* that has an onInit hook has had it invoked, also a plugin registered with
\* registerPlugin after bootstrap() completed.
C31_BootstrappedPluginsInitialized ==
    initialized =>
        \A i \in 1 .. Len(plugins) :
            "onInit" \in PluginHooks(plugins[i]) => hooksInvoked[<<plugins[i], "onInit">>] > 0

\* C32: a bootstrap() called while another bootstrap() is awaiting the
\* onInit hooks is rejected or has no effect: it invokes no onInit, emits
\* nothing and does not stay in flight.
C32_OverlappingBootstrapRejected ==
    [][(/\ ncalls' = ncalls + 1
        /\ invoc'.op = "bootstrap"
        /\ \E c \in calls : c.op = "bootstrap") =>
            /\ \A p \in PluginObjs : ~Invokes(p, "onInit")
            /\ emitted' = emitted
            /\ \A c \in calls' : c.call # ncalls']_vars

\* the bootstrap call whose awaited onInit hook fails in this step
FailedBootstraps ==
    {c \in calls : c.op = "bootstrap" /\ last'.call = c.call /\ last'.outcome = "rejected"}

\* C33: when the onInit hook of plugin k throws or rejects during
\* bootstrap(), bootstrap() fails with that error, it invokes the onInit of
\* no plugin after k, kernel:ready is not emitted and the kernel stays
\* uninitialized, so that a later bootstrap() is accepted and invokes onInit
\* again from the first registered plugin.
C33_FailedBootstrapLeavesUninitialized ==
    [][/\ \A c \in FailedBootstraps :
              /\ last'.error = "hook failed"
              /\ last'.log = c.log
              /\ \A d \in calls' : d.call # c.call
              /\ \A p \in PluginObjs : ~Invokes(p, "onInit")
              /\ emitted' = emitted
              /\ ~initialized'
       /\ (ncalls' = ncalls + 1 /\ invoc'.op = "bootstrap" /\ ~initialized) =>
              LET first == HooksToStart(plugins, 0, "onInit")
              IN  IF first = <<>>
                  THEN last'.call = ncalls' /\ last'.outcome = "resolved"
                  ELSE \E c \in calls' :
                          c.call = ncalls' /\ c.log = <<plugins[first[1]]>>]_vars


\* C34: in every state that register, unregister, setPrimary and clear calls
\* reach, failing calls included, the primary id is unset or the id of a
\* registered data source, and it is unset only when the registry is empty.
C34_PrimaryIsRegistered ==
    /\ primaryDataSourceId # "undefined" => primaryDataSourceId \in RegisteredIds(dataSources)
    /\ primaryDataSourceId = "undefined" => dataSources = <<>>


\* C35: connect emits datasource:connection-failed and rejects only when the
\* connect of the data source itself failed: a connect call whose data
\* source connected emits no datasource:connection-failed and resolves, also
\* when a handler subscribed to datasource:connected throws.
C35_ConnectionFailedOnlyOnFailure ==
    (dsmLast.op = "connect" /\ dsmLast.obj # 0 /\ dsmLast.obj \notin dsmLast.failed) =>
        /\ \A i \in 1 .. Len(dsmLast.events) :
               dsmLast.events[i].name # "datasource:connection-failed"
        /\ dsmLast.outcome = "resolved"


\* C36: when unregister(id) is called while an earlier unregister(id) of the
\* same registered, connected data source awaits its disconnect, the second
\* call does not invoke disconnect again and fails with 'not found', so that
\* disconnect is invoked at most once and datasource:unregistered is emitted
\* once for the id.
C36_OverlappingUnregisterFails ==
    [][(/\ dsmCount' = dsmCount + 1
        /\ IssuedCall.op = "unregister"
        /\ \E c \in dsmCalls : c.op = "unregister" /\ c.id = IssuedCall.id) =>
            /\ dsmLast'.n = dsmCount'
            /\ dsmLast'.error = "NotFound"
            /\ dsmLast'.invoked = {}
            /\ dsmLast'.events = <<>>]_vars


\* C37: a handler registered with once(name, h) is invoked at most once also
\* when h throws: when the running once handler throws, it is no longer
\* subscribed to its event afterwards, so that a later emit does not invoke it.
C37_ThrowingOnceUnsubscribed ==
    [][(/\ stack # <<>>
        /\ Top.kind = "handler"
        /\ Top.fn.once > 0
        /\ emitLog'[Top.id].outcome = "threw") =>
            ~SetHas(Subscribed(events', Top.event), Top.fn)]_vars


\* C38: once a token has an instance (registered with registerSingleton or
\* memoized by a first resolve), registerService for the token changes
\* nothing observable: the instance stays, a resolve of the token returns it
\* and invokes no factory; registerSingleton(token, x) makes resolve(token)
\* return x.
C38_InstanceShadowsFactory ==
    /\ [](\A t \in Tokens :
            MapHas(instances, t) =>
                /\ Resolve(t).outcome = "returned"
                /\ Resolve(t).value = instances[t]
                /\ Resolve(t).invoked = "none")
    /\ [][\A t \in Tokens :
            /\ (containerOp'.n # containerOp.n /\ containerOp'.op = "registerService"
                /\ containerOp'.token = t /\ MapHas(instances, t))
               => /\ instances' = instances
                  /\ factoryCalls' = factoryCalls
            /\ (containerOp'.n # containerOp.n /\ containerOp'.op = "resolve"
                /\ containerOp'.token = t /\ MapHas(instances, t))
               => /\ containerOp'.value = instances[t]
                  /\ containerOp'.invoked = "none"
                  /\ instances' = instances
            /\ (containerOp'.n # containerOp.n /\ containerOp'.op = "registerSingleton"
                /\ containerOp'.token = t)
               => /\ MapHas(instances', t)
                  /\ instances'[t] = containerOp'.value]_vars

\* f2 was registered for a token whose instance f1 had made, and a resolve
\* of the token has returned that instance since
C38_Witness ==
    /\ containerOp.op = "resolve" /\ containerOp.token = "t1" /\ containerOp.n = 4
    /\ containerOp.value = Made("f1", 1)
    /\ containerOp.invoked = "none"
    /\ MapHas(services, "t1") /\ services["t1"] = "f2"
    /\ factoryCalls = MapSet(EmptyMap, "t1", 1)


-----------------------------------------------------------------------------
(* Properties of the QueryBuilder, checked under SpecQueryBuilder *)

\* C39: a Query that build() has returned is immutable: the calls made on
\* the builder after the build() do not change it, so every Query returned
\* so far is as it was when it was returned.
C39_BuiltQueryImmutable ==
    \A i \in 1 .. Len(qbReturned) : qbHeap[qbReturned[i].ref] = qbReturned[i].query

\* the Query invariant: an insert has data, an update has data and a where
\* list, a delete has a where list
QueryInvariant(q) ==
    /\ q.operation \in {"select", "insert", "update", "delete"}
    /\ q.operation = "insert" => q.data # "undefined"
    /\ q.operation = "update" => q.data # "undefined" /\ "where" \in q.arrays
    /\ q.operation = "delete" => "where" \in q.arrays

\* C40: build() fails when no operation verb was set; otherwise the Query
\* it returns has a verb and satisfies the Query invariant for the verb.
\* The where and orderBy clauses are in the order of the builder calls:
\* every call appends the clause it was given, if any, to the end of its
\* list and leaves the earlier clauses in place.
C40_BuildReturnsValidQuery ==
    /\ [](qbLast.op = "build" =>
            IF qbHeap[ThisQuery].operation = "undefined"
            THEN qbLast.outcome = "threw"
            ELSE /\ qbLast.outcome = "returned"
                 /\ QueryInvariant(qbHeap[qbLast.value]))
    /\ [][qbLast'.n # qbLast.n =>
            /\ qbHeap'[ThisQuery].where = qbHeap[ThisQuery].where \o qbLast'.where
            /\ qbHeap'[ThisQuery].orderBy = qbHeap[ThisQuery].orderBy \o qbLast'.orderBy]_vars

====
